---- MODULE Spec2Model ----
(***************************************************************************)
(* A model of the hand-written tokenizer (src/src/lexer.rs) and of the     *)
(* backtracking parser (src/src/parser.rs) of openpgp-asciiarmor.          *)
(*                                                                         *)
(* A character is a one-character string, a text is a sequence of          *)
(* characters.  Rust's Option and Result are records: a token whose type   *)
(* is "None" is Option::None, a result is [kind, val] with kind one of     *)
(* "Ok", "Err" and "Panic" (an unwrap() on None, an index out of bounds:   *)
(* the thread aborts).                                                     *)
(***************************************************************************)
EXTENDS Integers, Sequences, FiniteSets, TLC

(***************************************************************************)
(* Bounds of the model.                                                    *)
(***************************************************************************)
\* longest text over Sigma that is enumerated exhaustively
MaxLen == 3
\* longest run of digits in a part number
MaxDigits == 2
\* number of parser productions called on one parser
MaxOps == 2

(***************************************************************************)
(* A let binding of Rust: the value is computed once and named in In.      *)
(***************************************************************************)
Let(value, In(_)) == In(value)

(***************************************************************************)
(* Character classes, lexer.rs:434-506.                                    *)
(***************************************************************************)
LowerCase == {"a", "b", "c", "d", "e", "f", "g", "h", "i", "j", "k", "l", "m",
              "n", "o", "p", "q", "r", "s", "t", "u", "v", "w", "x", "y", "z"}

UpperCase == {"A", "B", "C", "D", "E", "F", "G", "H", "I", "J", "K", "L", "M",
              "N", "O", "P", "Q", "R", "S", "T", "U", "V", "W", "X", "Y", "Z"}

Letters == LowerCase \cup UpperCase

Digits == {"0", "1", "2", "3", "4", "5", "6", "7", "8", "9"}

(***************************************************************************)
(* TokenType::armor_string, lexer.rs:38-64.  NoString is Option::None.     *)
(***************************************************************************)
NoString == <<"None">>

armor_string(token_type) ==
    CASE token_type = "Pad" -> <<"=">>
      [] token_type = "ForwardSlash" -> <<"/">>
      [] token_type = "Colon" -> <<":">>
      [] token_type = "Comma" -> <<",">>
      [] token_type = "PlusSign" -> <<"+">>
      [] token_type = "WhiteSpace" -> <<" ">>
      [] token_type = "ColonSpace" -> <<":", " ">>
      [] token_type = "NewLine" -> <<"\n">>
      [] token_type = "FiveDashes" -> <<"-", "-", "-", "-", "-">>
      [] token_type = "Begin" -> <<"B", "E", "G", "I", "N", " ">>
      [] token_type = "End" -> <<"E", "N", "D", " ">>
      [] token_type = "Version" -> <<"V", "e", "r", "s", "i", "o", "n">>
      [] token_type = "Comment" -> <<"C", "o", "m", "m", "e", "n", "t">>
      [] token_type = "MessageID" -> <<"M", "e", "s", "s", "a", "g", "e", "I", "D">>
      [] token_type = "Hash" -> <<"H", "a", "s", "h">>
      [] token_type = "Charset" -> <<"C", "h", "a", "r", "s", "e", "t">>
      [] token_type = "Eof" -> <<"E", "O", "F">>
      [] token_type = "PGPMessage" ->
            <<"P", "G", "P", " ", "M", "E", "S", "S", "A", "G", "E">>
      [] token_type = "PGPPublicKeyBlock" ->
            <<"P", "G", "P", " ", "P", "U", "B", "L", "I", "C", " ",
              "K", "E", "Y", " ", "B", "L", "O", "C", "K">>
      [] token_type = "PGPPrivateKeyBlock" ->
            <<"P", "G", "P", " ", "P", "R", "I", "V", "A", "T", "E", " ",
              "K", "E", "Y", " ", "B", "L", "O", "C", "K">>
      [] token_type = "PGPMessagePart" ->
            <<"P", "G", "P", " ", "M", "E", "S", "S", "A", "G", "E", ",",
              " ", "P", "A", "R", "T", " ">>
      [] token_type = "PGPSignature" ->
            <<"P", "G", "P", " ", "S", "I", "G", "N", "A", "T", "U", "R", "E">>
      [] OTHER -> NoString

\* the token types armor_string spells, in the order of lexer.rs:67-93
SpelledTypes ==
    <<"Pad", "ForwardSlash", "Colon", "Comma", "PlusSign", "WhiteSpace",
      "ColonSpace", "NewLine", "FiveDashes", "Begin", "End", "Version",
      "Comment", "MessageID", "Hash", "Charset", "Eof", "PGPMessage",
      "PGPPublicKeyBlock", "PGPPrivateKeyBlock", "PGPMessagePart",
      "PGPSignature">>

(***************************************************************************)
(* string_to_token_type, lexer.rs:67-93: the first arm whose literal is    *)
(* the string; "None" when no arm matches.                                 *)
(***************************************************************************)
RECURSIVE string_to_token_type_from(_, _)
string_to_token_type_from(token_string, i) ==
    IF i > Len(SpelledTypes) THEN "None"
    ELSE IF armor_string(SpelledTypes[i]) = token_string THEN SpelledTypes[i]
    ELSE string_to_token_type_from(token_string, i + 1)

string_to_token_type(token_string) == string_to_token_type_from(token_string, 1)

(***************************************************************************)
(* Token and Location, lexer.rs:95-135.                                    *)
(***************************************************************************)
Token(token_type, text, location) ==
    [token_type |-> token_type, text |-> text, location |-> location]

\* Location::eof, lexer.rs:101-103
LocationEof == -1

\* Option<Token>::None
NoToken == Token("None", <<>>, 0)

(***************************************************************************)
(* The Lexer, lexer.rs:137-154: the Peekable character iterator is the     *)
(* text that has not been read yet, location is the position counter.      *)
(* A scan returns [lx, tok, panic]: the lexer after the call, the          *)
(* Option<Token> it returns, and whether the call aborted instead.         *)
(***************************************************************************)
LexerNew(text) == [input |-> text, location |-> 0]

Scanned(lx, tok) == [lx |-> lx, tok |-> tok, panic |-> FALSE]

Aborted(lx) == [lx |-> lx, tok |-> NoToken, panic |-> TRUE]

\* lexer.rs:280-282; <<>> is None
peek_char(lx) == IF lx.input = <<>> THEN <<>> ELSE <<Head(lx.input)>>

\* lexer.rs:284-300: the character leaves the iterator for good
read_char(lx) ==
    IF lx.input = <<>> THEN lx
    ELSE [input |-> Tail(lx.input), location |-> lx.location + 1]

\* backtrack_ntimes that goes back one more than amount
backtrack_ntimes_one_more(lx, amount) ==
    [input |-> lx.input, location |-> lx.location - (amount + 1)]

\* lexer.rs:302-304: only the counter goes back, the iterator does not
backtrack_ntimes(lx, amount) ==
    [input |-> lx.input, location |-> lx.location - amount]

(***************************************************************************)
(* match_terminal_symbol, lexer.rs:310-332.  i is the position in          *)
(* token_string, i - 1 characters are in result.                           *)
(***************************************************************************)
RECURSIVE match_terminal_loop(_, _, _)
match_terminal_loop(lx, token_string, i) ==
    IF i > Len(token_string) THEN [lx |-> lx, matched |-> TRUE]
    ELSE IF lx.input = <<>> THEN [lx |-> lx, matched |-> FALSE]
    ELSE IF Head(lx.input) = token_string[i]
         THEN match_terminal_loop(read_char(lx), token_string, i + 1)
         ELSE [lx |-> backtrack_ntimes(lx, i - 1), matched |-> FALSE]

match_terminal_symbol(lx, token_string) ==
    Let(match_terminal_loop(lx, token_string, 1), LAMBDA m :
        IF ~m.matched THEN Scanned(m.lx, NoToken)
        ELSE Let(string_to_token_type(token_string), LAMBDA token_type :
             IF token_type = "None" THEN Aborted(m.lx)
             ELSE Scanned(m.lx, Token(token_type, token_string, lx.location))))

\* lexer.rs:334-337: armor_string(..).unwrap() aborts for a type with no spelling
scan_symbol(lx, token_type) ==
    Let(armor_string(token_type), LAMBDA token_string :
        IF token_string = NoString THEN Aborted(lx)
        ELSE match_terminal_symbol(lx, token_string))

\* lexer.rs:423-425
scan_other_utf8(lx) == scan_symbol(lx, "OtherUTF8")

\* lexer.rs:427-432
process_char(lx, ch, token_type) ==
    Scanned(read_char(lx), Token(token_type, <<ch>>, lx.location))

\* lexer.rs:434-490
scan_letter(lx) ==
    IF lx.input # <<>> /\ Head(lx.input) \in Letters
    THEN process_char(lx, Head(lx.input), "Letter")
    ELSE Scanned(lx, NoToken)

\* lexer.rs:492-506
scan_digit(lx) ==
    IF lx.input # <<>> /\ Head(lx.input) \in Digits
    THEN process_char(lx, Head(lx.input), "Digit")
    ELSE Scanned(lx, NoToken)

(***************************************************************************)
(* scan_blankline, lexer.rs:508-545.                                       *)
(***************************************************************************)
RECURSIVE scan_blankline_loop(_, _)
scan_blankline_loop(lx, result) ==
    IF lx.input # <<>> /\ Head(lx.input) = " "
    THEN scan_blankline_loop(read_char(lx), Append(result, " "))
    ELSE IF lx.input # <<>> /\ Head(lx.input) = "\n"
    THEN [lx |-> read_char(lx), result |-> Append(result, "\n"), matched |-> TRUE]
    ELSE [lx |-> backtrack_ntimes(lx, Len(result)), result |-> result,
          matched |-> FALSE]

scan_blankline(lx) ==
    IF lx.input # <<>> /\ Head(lx.input) = "\n"
    THEN Let(scan_blankline_loop(read_char(lx), <<"\n">>), LAMBDA r :
             IF r.matched
             THEN Scanned(r.lx, Token("BlankLine", r.result, lx.location))
             ELSE Scanned(r.lx, NoToken))
    ELSE Scanned(lx, NoToken)

\* lexer.rs:547-556
scan_eof(lx) ==
    IF lx.input # <<>> THEN Scanned(lx, NoToken)
    ELSE Scanned(lx, Token("Eof", armor_string("Eof"), LocationEof))

\* Option::unwrap on the result of a scan
unwrap(s) == IF s.panic \/ s.tok.token_type = "None" THEN Aborted(s.lx) ELSE s

(***************************************************************************)
(* The arms of next_token that try literals one after the other and end    *)
(* with a fallback scan, lexer.rs:158-270: each attempt starts from the    *)
(* lexer the attempt before it left.                                       *)
(***************************************************************************)
RECURSIVE scan_first_of(_, _, _)
scan_first_of(lx, token_types, i) ==
    IF i > Len(token_types) THEN Scanned(lx, NoToken)
    ELSE Let(scan_symbol(lx, token_types[i]), LAMBDA result :
             IF result.panic \/ result.tok.token_type # "None" THEN result
             ELSE scan_first_of(result.lx, token_types, i + 1))

\* the literals tried at a 'P', lexer.rs:223-247
PLiterals ==
    <<"PGPMessage", "PGPPublicKeyBlock", "PGPPrivateKeyBlock",
      "PGPMessagePart", "PGPMessagePart", "PGPSignature">>

\* the literals tried at the other characters, lexer.rs:158-222 and 255-262
LiteralsAt(ch) ==
    CASE ch = "-" -> <<"FiveDashes">>
      [] ch = ":" -> <<"ColonSpace">>
      [] ch = "B" -> <<"Begin">>
      [] ch = "E" -> <<"End">>
      [] ch = "V" -> <<"Version">>
      [] ch = "C" -> <<"Comment", "Charset">>
      [] ch = "H" -> <<"Hash">>
      [] ch = "P" -> PLiterals
      [] ch = "M" -> <<"MessageID">>
      [] OTHER -> <<>>

\* the scan next_token falls back to when the literals of the arm failed
fallback_scan(lx, ch) ==
    CASE ch = "-" -> scan_other_utf8(lx)
      [] ch = ":" -> scan_symbol(lx, "Colon")
      [] ch \in {"B", "E", "V", "C", "H", "P", "M"} -> scan_letter(lx)
      [] OTHER -> Aborted(lx)

(***************************************************************************)
(* Lexer::next_token, lexer.rs:156-277.                                    *)
(***************************************************************************)
\* the arms that try literals, lexer.rs:158-165, 168-175 and 179-262
scan_literals(lx, ch) ==
    Let(scan_first_of(lx, LiteralsAt(ch), 1), LAMBDA result :
        IF result.panic \/ result.tok.token_type # "None" THEN result
        ELSE unwrap(fallback_scan(result.lx, ch)))

\* the arm of '\n', lexer.rs:263-269
scan_line_end(lx) ==
    Let(scan_blankline(lx), LAMBDA result :
        IF result.tok.token_type # "None" THEN result
        ELSE unwrap(scan_symbol(result.lx, "NewLine")))

\* the arms of one scan, lexer.rs:166-167, 176-178 and 271-274
scan_single(lx, ch) ==
    CASE ch = "=" -> scan_symbol(lx, "Pad")
      [] ch = "/" -> scan_symbol(lx, "ForwardSlash")
      [] ch = "+" -> scan_symbol(lx, "PlusSign")
      [] ch = "," -> scan_symbol(lx, "Comma")
      [] ch = " " -> scan_symbol(lx, "WhiteSpace")
      [] ch \in Digits -> scan_digit(lx)
      [] ch \in Letters -> scan_letter(lx)
      [] OTHER -> scan_other_utf8(lx)

next_token(lx) ==
    IF lx.input = <<>> THEN unwrap(scan_eof(lx))
    ELSE IF Head(lx.input) \in {"-", ":", "B", "E", "V", "C", "H", "P", "M"}
         THEN scan_literals(lx, Head(lx.input))
    ELSE IF Head(lx.input) = "\n" THEN scan_line_end(lx)
    ELSE unwrap(scan_single(lx, Head(lx.input)))

(***************************************************************************)
(* impl Iterator for Lexer, lexer.rs:559-570: Eof becomes None.            *)
(***************************************************************************)
lexer_next(lx) ==
    Let(next_token(lx), LAMBDA s :
        IF ~s.panic /\ s.tok.token_type = "Eof" THEN Scanned(s.lx, NoToken)
        ELSE s)

(***************************************************************************)
(* ParseResult<T>, parser.rs:56-78.  An operation of the parser returns    *)
(* [ps, res]: the parser after the call and the result; kind "Panic" is    *)
(* an abort, which no caller catches.                                      *)
(***************************************************************************)
Ok(ps, val) == [ps |-> ps, res |-> [kind |-> "Ok", val |-> val]]

Err(ps, error) == [ps |-> ps, res |-> [kind |-> "Err", val |-> [error |-> error]]]

Panicked(ps) == [ps |-> ps, res |-> [kind |-> "Panic", val |-> [error |-> "abort"]]]

\* the values of enum MessageType, parser.rs:13-21
PGPMessage == [tag |-> "PGPMessage"]

PGPPublicKeyBlock == [tag |-> "PGPPublicKeyBlock"]

PGPPrivateKeyBlock == [tag |-> "PGPPrivateKeyBlock"]

PGPSignature == [tag |-> "PGPSignature"]

PGPMessagePartXofY(x, y) == [tag |-> "PGPMessagePartXofY", x |-> x, y |-> y]

PGPMessagePartX(x) == [tag |-> "PGPMessagePartX", x |-> x]

\* parser.rs:33-42
token_type_to_header_type(token_type) ==
    IF token_type \in {"Version", "Comment", "MessageID", "Hash", "Charset"}
    THEN [tag |-> token_type]
    ELSE [tag |-> "OtherHeader", name |-> <<>>]

\* struct Header, parser.rs:44-48
Header(header_type, header_block) ==
    [header_type |-> header_type, header_block |-> header_block]

(***************************************************************************)
(* Parser::new, parser.rs:102-117.  lx is the lexer the parser owns.       *)
(***************************************************************************)
\* Next to the four fields, the record keeps the largest length the marker
\* stack and the lookahead buffer have had since new: most_markers and
\* most_lookahead; and the number of tokens consume has taken from the
\* front of the buffer: removed.  The code has no such fields and nothing
\* reads them.
ParserNew(lx) ==
    [lx |-> lx, lookahead |-> <<>>, markers |-> <<>>, offset |-> 0,
     most_markers |-> 0, most_lookahead |-> 0, removed |-> 0]

\* the larger of two lengths
Larger(a, b) == IF a >= b THEN a ELSE b

\* VecDeque::push_back on lookahead, parser.rs:124 and 159
push_back(ps, token) ==
    [ps EXCEPT !.lookahead = Append(@, token),
               !.most_lookahead = Larger(@, Len(ps.lookahead) + 1)]

\* parser.rs:144-146
read_token(ps) == [ps EXCEPT !.offset = @ + 1]

\* parser.rs:166-168
mark(ps) ==
    [ps EXCEPT !.markers = Append(@, ps.offset),
               !.most_markers = Larger(@, Len(ps.markers) + 1)]

\* consume that empties the buffer, the tokens not yet read included
consume_whole_buffer(ps) ==
    [ps EXCEPT !.lookahead = <<>>,
               !.markers = <<>>,
               !.offset = 0,
               !.removed = IF ps.offset >= Len(ps.lookahead)
                           THEN @ + Len(ps.lookahead) ELSE @ + ps.offset]

\* parser.rs:170-176; pop_front on an empty deque does nothing
consume(ps) ==
    [ps EXCEPT !.lookahead = IF ps.offset >= Len(@) THEN <<>>
                             ELSE SubSeq(@, ps.offset + 1, Len(@)),
               !.markers = <<>>,
               !.offset = 0,
               !.removed = IF ps.offset >= Len(ps.lookahead)
                           THEN @ + Len(ps.lookahead) ELSE @ + ps.offset]

\* backtrack that reads the last mark and leaves it on the stack
backtrack_keeps_mark(ps) ==
    IF ps.markers = <<>> THEN [ps EXCEPT !.offset = 0]
    ELSE [ps EXCEPT !.offset = ps.markers[Len(ps.markers)]]

\* parser.rs:178-184
backtrack(ps) ==
    IF ps.markers = <<>> THEN [ps EXCEPT !.offset = 0]
    ELSE [ps EXCEPT !.offset = ps.markers[Len(ps.markers)],
                    !.markers = SubSeq(@, 1, Len(@) - 1)]

\* parser.rs:186-191
backtrack_with_error(r) ==
    IF r.res.kind = "Err" THEN [r EXCEPT !.ps = backtrack(@)] ELSE r

(***************************************************************************)
(* fill, parser.rs:155-164: up to amount tokens go from the lexer to the   *)
(* back of the lookahead buffer; the loop stops at the end of the stream.  *)
(***************************************************************************)
RECURSIVE fill(_, _)
fill(ps, amount) ==
    IF amount = 0 THEN [ps |-> ps, panic |-> FALSE]
    ELSE Let(lexer_next(ps.lx), LAMBDA s :
             IF s.panic THEN [ps |-> [ps EXCEPT !.lx = s.lx], panic |-> TRUE]
             ELSE IF s.tok.token_type = "None"
                  THEN [ps |-> [ps EXCEPT !.lx = s.lx], panic |-> FALSE]
             ELSE fill(push_back([ps EXCEPT !.lx = s.lx], s.tok), amount - 1))

\* sync that fetches a token whether or not the offset is in the buffer
sync_fetches_always(ps) == fill(ps, 1)

\* parser.rs:148-153, called with a non-empty lookahead buffer
sync(ps) ==
    IF ps.offset > Len(ps.lookahead) - 1
    THEN fill(ps, ps.offset - (Len(ps.lookahead) - 1))
    ELSE [ps |-> ps, panic |-> FALSE]

(***************************************************************************)
(* peek_token, parser.rs:119-133: [ps, tok, panic]; lookahead[offset] with *)
(* offset past the last element aborts.                                    *)
(***************************************************************************)
peek_token(ps) ==
    IF ps.lookahead = <<>>
    THEN Let(lexer_next(ps.lx), LAMBDA s :
             IF s.panic \/ s.tok.token_type = "None"
             THEN [ps |-> [ps EXCEPT !.offset = 0, !.lx = s.lx],
                   tok |-> NoToken, panic |-> s.panic]
             ELSE [ps |-> push_back([ps EXCEPT !.offset = 0, !.lx = s.lx], s.tok),
                   tok |-> s.tok, panic |-> FALSE])
    ELSE Let(sync(ps), LAMBDA f :
             IF f.panic \/ f.ps.offset >= Len(f.ps.lookahead)
             THEN [ps |-> f.ps, tok |-> NoToken, panic |-> TRUE]
             ELSE [ps |-> f.ps, tok |-> f.ps.lookahead[f.ps.offset + 1],
                   panic |-> FALSE])

(***************************************************************************)
(* parse_number, parser.rs:202-224.                                        *)
(***************************************************************************)
DigitValue(ch) ==
    CASE ch = "0" -> 0 [] ch = "1" -> 1 [] ch = "2" -> 2 [] ch = "3" -> 3
      [] ch = "4" -> 4 [] ch = "5" -> 5 [] ch = "6" -> 6 [] ch = "7" -> 7
      [] ch = "8" -> 8 [] ch = "9" -> 9

\* the digits of usize::MAX, 2^64 - 1, of a target of 64 bits
USIZE_MAX_DIGITS ==
    <<"1", "8", "4", "4", "6", "7", "4", "4", "0", "7", "3", "7", "0", "9",
      "5", "5", "1", "6", "1", "5">>

\* a run of digits without its leading zeros
RECURSIVE NoLeadingZeros(_)
NoLeadingZeros(digits) ==
    IF digits # <<>> /\ Head(digits) = "0" THEN NoLeadingZeros(Tail(digits))
    ELSE digits

\* a is a larger number than b, both of one length, no leading zeros
RECURSIVE LargerDigits(_, _)
LargerDigits(a, b) ==
    IF a = <<>> THEN FALSE
    ELSE IF Head(a) # Head(b) THEN DigitValue(Head(a)) > DigitValue(Head(b))
    ELSE LargerDigits(Tail(a), Tail(b))

\* str::parse::<usize> returns Err: the number is larger than usize::MAX
exceeds_usize(digits) ==
    Let(NoLeadingZeros(digits), LAMBDA d :
        \/ Len(d) > Len(USIZE_MAX_DIGITS)
        \/ Len(d) = Len(USIZE_MAX_DIGITS) /\ LargerDigits(d, USIZE_MAX_DIGITS))

\* str::parse::<usize> of a non-empty run of digits that does not exceed
\* usize::MAX; the runs of the model that do not are at most MaxDigits + 1
\* long
RECURSIVE parse_usize(_)
parse_usize(digits) ==
    IF digits = <<>> THEN 0
    ELSE 10 * parse_usize(SubSeq(digits, 1, Len(digits) - 1))
         + DigitValue(digits[Len(digits)])

RECURSIVE parse_number_loop(_, _)
parse_number_loop(ps, result) ==
    Let(peek_token(ps), LAMBDA p :
        IF p.panic THEN [ps |-> p.ps, result |-> result, panic |-> TRUE]
        ELSE IF p.tok.token_type = "Digit"
             THEN parse_number_loop(read_token(p.ps), result \o p.tok.text)
             ELSE [ps |-> p.ps, result |-> result, panic |-> FALSE])

\* parser.rs:217-222: no digit was read
parse_number_error(ps) ==
    Let(peek_token(ps), LAMBDA p :
        IF p.panic THEN Panicked(p.ps)
        ELSE IF p.tok.token_type = "None" THEN Err(p.ps, "EndOfFile")
        ELSE Err(backtrack(p.ps), "ParseError"))

\* parser.rs:215-217: unwrap aborts on the Err of parse::<usize>
parse_number(ps) ==
    Let(parse_number_loop(mark(ps), <<>>), LAMBDA l :
        IF l.panic THEN Panicked(l.ps)
        ELSE IF l.result # <<>>
             THEN IF exceeds_usize(l.result) THEN Panicked(l.ps)
                  ELSE Ok(l.ps, [n |-> parse_usize(l.result)])
        ELSE parse_number_error(l.ps))

\* try_or_backtrack(Self::parse_number), parser.rs:193-200
try_parse_number(ps) == backtrack_with_error(parse_number(ps))

(***************************************************************************)
(* read_token_or_else, parser.rs:226-237.                                  *)
(***************************************************************************)
read_token_or_else(ps, token_type, err) ==
    Let(peek_token(ps), LAMBDA p :
        IF p.panic THEN Panicked(p.ps)
        ELSE IF p.tok.token_type = "None" THEN Err(p.ps, "EndOfFile")
        ELSE IF p.tok.token_type = token_type THEN Ok(read_token(p.ps), p.tok)
        ELSE Err(p.ps, err))

(***************************************************************************)
(* parse_token_lazy, parser.rs:239-252.                                    *)
(***************************************************************************)
parse_token_lazy(ps, token_type, value, error) ==
    Let(peek_token(mark(ps)), LAMBDA p :
        IF p.panic THEN Panicked(p.ps)
        ELSE IF p.tok.token_type = "None" THEN Err(p.ps, "EndOfFile")
        ELSE IF p.tok.token_type = token_type THEN Ok(read_token(p.ps), value)
        ELSE backtrack_with_error(Err(p.ps, error)))

(***************************************************************************)
(* parse_part_x, parser.rs:254-264.                                        *)
(***************************************************************************)
\* parser.rs:258-263: what follows the number
parse_part_x_end(ps, val) ==
    Let(peek_token(ps), LAMBDA p :
        IF p.panic THEN Panicked(p.ps)
        ELSE IF p.tok.token_type = "None" THEN Err(p.ps, "EndOfFile")
        ELSE IF p.tok.token_type = "FiveDashes" THEN Ok(p.ps, val)
        ELSE backtrack_with_error(Err(p.ps, "CorruptHeader")))

parse_part_x(ps) ==
    Let(try_parse_number(mark(ps)), LAMBDA result :
        IF result.res.kind # "Ok" THEN result
        ELSE parse_part_x_end(result.ps, result.res.val))

(***************************************************************************)
(* parse_part_x_div_y, parser.rs:266-285.                                  *)
(***************************************************************************)
\* parser.rs:282-284: the number after the slash
parse_part_y(ps, x) ==
    Let(try_parse_number(ps), LAMBDA num_y :
        IF num_y.res.kind # "Ok" THEN num_y
        ELSE Ok(num_y.ps, [x |-> x, y |-> num_y.res.val.n]))

\* parser.rs:270-280: the slash after the first number
parse_part_div(ps, x) ==
    Let(peek_token(ps), LAMBDA p :
        IF p.panic THEN Panicked(p.ps)
        ELSE IF p.tok.token_type = "None"
             THEN backtrack_with_error(Err(p.ps, "EndOfFile"))
        ELSE IF p.tok.token_type # "ForwardSlash"
             THEN backtrack_with_error(Err(p.ps, "CorruptHeader"))
        ELSE parse_part_y(read_token(p.ps), x))

parse_part_x_div_y(ps) ==
    Let(try_parse_number(mark(ps)), LAMBDA num_x :
        IF num_x.res.kind # "Ok" THEN num_x
        ELSE parse_part_div(num_x.ps, num_x.res.val.n))

(***************************************************************************)
(* parse_pgp_message_part, parser.rs:287-309.                              *)
(***************************************************************************)
\* parser.rs:299-304: the second attempt
parse_part_x_only(ps) ==
    Let(parse_part_x(ps), LAMBDA x :
        IF x.res.kind = "Panic" THEN x
        ELSE IF x.res.kind = "Ok" THEN Ok(x.ps, PGPMessagePartX(x.res.val.n))
        ELSE backtrack_with_error(Err(x.ps, "CorruptHeader")))

\* parser.rs:292-304: after the PGPMessagePart token
parse_part_numbers(ps) ==
    Let(parse_part_x_div_y(ps), LAMBDA xy :
        IF xy.res.kind = "Panic" THEN xy
        ELSE IF xy.res.kind = "Ok"
             THEN Ok(xy.ps, PGPMessagePartXofY(xy.res.val.x, xy.res.val.y))
        ELSE parse_part_x_only(backtrack(xy.ps)))

parse_pgp_message_part(ps) ==
    Let(peek_token(mark(ps)), LAMBDA p :
        IF p.panic THEN Panicked(p.ps)
        ELSE IF p.tok.token_type = "None" THEN Err(p.ps, "EndOfFile")
        ELSE IF p.tok.token_type # "PGPMessagePart"
             THEN backtrack_with_error(Err(p.ps, "CorruptHeader"))
        ELSE parse_part_numbers(read_token(p.ps)))

\* parser.rs:311-337
parse_pgp_message(ps) ==
    parse_token_lazy(ps, "PGPMessage", PGPMessage, "CorruptHeader")

parse_pgp_publickey_block(ps) ==
    parse_token_lazy(ps, "PGPPublicKeyBlock", PGPPublicKeyBlock, "CorruptHeader")

parse_pgp_privatekey_block(ps) ==
    parse_token_lazy(ps, "PGPPrivateKeyBlock", PGPPrivateKeyBlock, "CorruptHeader")

parse_pgp_signature(ps) ==
    parse_token_lazy(ps, "PGPSignature", PGPSignature, "CorruptHeader")

(***************************************************************************)
(* parse_header_tail_line, parser.rs:339-366.                              *)
(***************************************************************************)
parse_message_type(ps) ==
    Let(peek_token(ps), LAMBDA p :
        IF p.panic THEN Panicked(p.ps)
        ELSE IF p.tok.token_type = "None" THEN Err(p.ps, "EndOfFile")
        ELSE CASE p.tok.token_type = "PGPMessagePart" -> parse_pgp_message_part(p.ps)
               [] p.tok.token_type = "PGPMessage" -> parse_pgp_message(p.ps)
               [] p.tok.token_type = "PGPPublicKeyBlock" -> parse_pgp_publickey_block(p.ps)
               [] p.tok.token_type = "PGPPrivateKeyBlock" -> parse_pgp_privatekey_block(p.ps)
               [] p.tok.token_type = "PGPSignature" -> parse_pgp_signature(p.ps)
               [] OTHER -> Err(p.ps, "CorruptHeader"))

\* the closing dashes read and nothing consumed
parse_line_closing_no_consume(ps, message_type) ==
    Let(read_token_or_else(ps, "FiveDashes", "CorruptHeader"), LAMBDA closing :
        IF closing.res.kind # "Ok" THEN closing
        ELSE Ok(closing.ps, message_type))

\* parser.rs:354-357: the closing dashes
parse_line_closing(ps, message_type) ==
    Let(read_token_or_else(ps, "FiveDashes", "CorruptHeader"), LAMBDA closing :
        IF closing.res.kind # "Ok" THEN closing
        ELSE Ok(consume(closing.ps), message_type))

\* parser.rs:343-357: the message type and what follows it
parse_line_type(ps) ==
    Let(parse_message_type(ps), LAMBDA message_type :
        IF message_type.res.kind # "Ok" THEN message_type
        ELSE parse_line_closing(message_type.ps, message_type.res.val))

\* parser.rs:341-357: the keyword and what follows it
parse_line_keyword(ps, token_type) ==
    Let(read_token_or_else(ps, token_type, "CorruptHeader"), LAMBDA keyword :
        IF keyword.res.kind # "Ok" THEN keyword
        ELSE parse_line_type(keyword.ps))

parse_header_tail_line(ps, token_type) ==
    Let(read_token_or_else(ps, "FiveDashes", "CorruptHeader"), LAMBDA dashes :
        IF dashes.res.kind # "Ok" THEN dashes
        ELSE parse_line_keyword(dashes.ps, token_type))

parse_header_line(ps) == parse_header_tail_line(ps, "Begin")

parse_tail_line(ps) == parse_header_tail_line(ps, "End")

(***************************************************************************)
(* parse_header_text, parser.rs:368-393.                                   *)
(***************************************************************************)
RECURSIVE parse_header_text_loop(_, _)
parse_header_text_loop(ps, result) ==
    Let(peek_token(ps), LAMBDA p :
        IF p.panic THEN Panicked(p.ps)
        ELSE IF p.tok.token_type = "None" THEN Err(p.ps, "EndOfFile")
        ELSE IF p.tok.token_type \in {"Version", "Comment", "MessageID", "Hash",
                                      "Charset", "BlankLine"}
             THEN Ok(p.ps, [text |-> result])
             ELSE parse_header_text_loop(read_token(p.ps), result \o p.tok.text))

parse_header_text(ps) == parse_header_text_loop(ps, <<>>)

(***************************************************************************)
(* skip_whitespace, parser.rs:395-404: [ps, panic].                        *)
(***************************************************************************)
RECURSIVE skip_whitespace(_)
skip_whitespace(ps) ==
    Let(peek_token(ps), LAMBDA p :
        IF p.panic THEN [ps |-> p.ps, panic |-> TRUE]
        ELSE IF p.tok.token_type = "WhiteSpace" THEN skip_whitespace(read_token(p.ps))
        ELSE [ps |-> p.ps, panic |-> FALSE])

\* skip_whitespace, then the value val
skip_whitespace_then(ps, val) ==
    Let(skip_whitespace(ps), LAMBDA w :
        IF w.panic THEN Panicked(w.ps) ELSE Ok(w.ps, val))

(***************************************************************************)
(* parse_headerkv, parser.rs:406-436.                                      *)
(***************************************************************************)
parse_headerkv_key(ps) ==
    Let(peek_token(ps), LAMBDA p :
        IF p.panic THEN Panicked(p.ps)
        ELSE IF p.tok.token_type = "None" THEN Err(p.ps, "EndOfFile")
        ELSE IF p.tok.token_type \in {"Version", "Comment", "MessageID", "Hash",
                                      "Charset"}
             THEN skip_whitespace_then(read_token(p.ps),
                                       token_type_to_header_type(p.tok.token_type))
             ELSE Err(p.ps, "InvalidHeaderLine"))

parse_headerkv_colon(ps) ==
    Let(peek_token(ps), LAMBDA p :
        IF p.panic THEN Panicked(p.ps)
        ELSE IF p.tok.token_type = "None" THEN Err(p.ps, "EndOfFile")
        ELSE IF p.tok.token_type = "ColonSpace"
             THEN skip_whitespace_then(read_token(p.ps), [unit |-> TRUE])
             ELSE Err(p.ps, "InvalidHeaderLine"))

parse_headerkv_text(ps) ==
    Let(peek_token(ps), LAMBDA p :
        IF p.panic THEN Panicked(p.ps)
        ELSE IF p.tok.token_type = "None" THEN Err(p.ps, "EndOfFile")
        ELSE parse_header_text(p.ps))

\* parser.rs:431-435: the text of the line
parse_headerkv_value(ps, header_type) ==
    Let(parse_headerkv_text(ps), LAMBDA header_text :
        IF header_text.res.kind # "Ok" THEN header_text
        ELSE Ok(consume(header_text.ps),
                [key |-> header_type, value |-> header_text.res.val.text]))

\* parser.rs:421-435: the colon and the text of the line
parse_headerkv_rest(ps, header_type) ==
    Let(parse_headerkv_colon(ps), LAMBDA colon :
        IF colon.res.kind # "Ok" THEN colon
        ELSE parse_headerkv_value(colon.ps, header_type))

parse_headerkv(ps) ==
    Let(parse_headerkv_key(ps), LAMBDA header_type :
        IF header_type.res.kind # "Ok" THEN header_type
        ELSE parse_headerkv_rest(header_type.ps, header_type.res.val))

(***************************************************************************)
(* parse_header_block, parser.rs:438-469.                                  *)
(***************************************************************************)
RECURSIVE parse_header_block_loop(_, _)
\* parser.rs:448-451: one line of the block, then the loop again
parse_header_block_line(ps, result) ==
    Let(parse_headerkv(ps), LAMBDA kv :
        IF kv.res.kind # "Ok" THEN kv
        ELSE parse_header_block_loop(kv.ps, Append(result, kv.res.val)))

parse_header_block_loop(ps, result) ==
    Let(peek_token(ps), LAMBDA p :
        IF p.panic THEN Panicked(p.ps)
        ELSE IF p.tok.token_type = "None" THEN Err(p.ps, "EndOfFile")
        ELSE IF p.tok.token_type \in {"Version", "Comment", "MessageID", "Hash",
                                      "Charset"}
             THEN parse_header_block_line(p.ps, result)
        ELSE IF p.tok.token_type = "BlankLine"
             THEN Ok(consume(read_token(p.ps)), [block |-> result])
             ELSE Err(p.ps, "CorruptHeader"))

parse_header_block(ps) == parse_header_block_loop(ps, <<>>)

(***************************************************************************)
(* parse_header and parse_tail, parser.rs:471-487.                         *)
(***************************************************************************)
\* parser.rs:474-482: the header block
parse_header_lines(ps, header_type) ==
    Let(parse_header_block(ps), LAMBDA header_block :
        IF header_block.res.kind # "Ok" THEN header_block
        ELSE Ok(consume(header_block.ps),
                Header(header_type, header_block.res.val.block)))

\* parser.rs:473-482: the white space and the header block
parse_header_rest(ps, header_type) ==
    Let(skip_whitespace(ps), LAMBDA w :
        IF w.panic THEN Panicked(w.ps)
        ELSE parse_header_lines(w.ps, header_type))

parse_header(ps) ==
    Let(parse_header_line(ps), LAMBDA header_type :
        IF header_type.res.kind # "Ok" THEN header_type
        ELSE parse_header_rest(header_type.ps, header_type.res.val))

parse_tail(ps) == parse_tail_line(ps)

(***************************************************************************)
(* The operators of Rust on unsigned integers.  No value of crc24.rs or    *)
(* base64.rs reaches the width of its type (usize, u32), see crc_bits and  *)
(* to_octet, so a shift to the left is a multiplication.                   *)
(***************************************************************************)
\* a value that is computed before it is used: a statement before the next
Then(value, In(_)) == CHOOSE r \in {In(v) : v \in {value}} : TRUE

\* the weight of the middle bit of a half: numbers below weight * weight
\* are split in halves below weight
HalfWeight(weight) ==
    CASE weight = 65536 -> 256
      [] weight = 256 -> 16
      [] weight = 16 -> 4
      [] weight = 4 -> 2
      [] weight = 2 -> 1

\* a & b of numbers below weight * weight, by halves
RECURSIVE AndHalves(_, _, _)
AndHalves(a, b, weight) ==
    IF a = 0 \/ b = 0 THEN 0
    ELSE IF weight = 1 THEN 1
    ELSE AndHalves(a \div weight, b \div weight, HalfWeight(weight)) * weight
         + AndHalves(a % weight, b % weight, HalfWeight(weight))

\* a | b of numbers below weight * weight, by halves
RECURSIVE OrHalves(_, _, _)
OrHalves(a, b, weight) ==
    IF a = 0 THEN b
    ELSE IF b = 0 THEN a
    ELSE IF weight = 1 THEN 1
    ELSE OrHalves(a \div weight, b \div weight, HalfWeight(weight)) * weight
         + OrHalves(a % weight, b % weight, HalfWeight(weight))

\* a ^ b of numbers below weight * weight, by halves
RECURSIVE XorHalves(_, _, _)
XorHalves(a, b, weight) ==
    IF a = 0 THEN b
    ELSE IF b = 0 THEN a
    ELSE IF weight = 1 THEN 0
    ELSE XorHalves(a \div weight, b \div weight, HalfWeight(weight)) * weight
         + XorHalves(a % weight, b % weight, HalfWeight(weight))

\* a & b
BitAnd(a, b) == AndHalves(a, b, 65536)

\* a | b
BitOr(a, b) == OrHalves(a, b, 65536)

\* a ^ b
BitXor(a, b) == XorHalves(a, b, 65536)

(***************************************************************************)
(* crc_octets, crc24.rs:4-24.                                              *)
(***************************************************************************)
\* 0xB704CE, crc24.rs:4
CRC24_INIT == 11994318

\* 0x1864CFB, crc24.rs:5
CRC24_POLY == 25578747

\* 0x1000000, crc24.rs:17
CRC24_CARRY == 16777216

\* 0xFFFFFF, crc24.rs:23
CRC24_MASK == 16777215

\* the steps with a polynomial that has no bit 24: the carry stays in the
\* accumulator, of which 25 bits are kept
RECURSIVE crc_bits_carry_kept(_, _)
crc_bits_carry_kept(crc, i) ==
    IF i = 8 THEN crc
    ELSE IF BitAnd(crc * 2, CRC24_CARRY) # 0
         THEN crc_bits_carry_kept(
                  BitXor((crc * 2) % (2 * CRC24_CARRY), CRC24_POLY - CRC24_CARRY),
                  i + 1)
         ELSE crc_bits_carry_kept((crc * 2) % (2 * CRC24_CARRY), i + 1)

\* the steps without the last one: seven shifts for an octet
RECURSIVE crc_bits_seven(_, _)
crc_bits_seven(crc, i) ==
    IF i >= 7 THEN crc
    ELSE IF BitAnd(crc * 2, CRC24_CARRY) # 0
         THEN crc_bits_seven(BitXor(crc * 2, CRC24_POLY), i + 1)
         ELSE crc_bits_seven(crc * 2, i + 1)

\* crc24.rs:15-20: the steps i..7 of one octet.  crc is below 2^24 before
\* and after every step: a set bit 24 is cleared by bit 24 of CRC24_POLY.
RECURSIVE crc_bits(_, _)
crc_bits(crc, i) ==
    IF i = 8 THEN crc
    ELSE IF BitAnd(crc * 2, CRC24_CARRY) # 0
         THEN crc_bits(BitXor(crc * 2, CRC24_POLY), i + 1)
         ELSE crc_bits(crc * 2, i + 1)

\* crc24.rs:13-21: crc after the first k octets of the slice, from init
RECURSIVE crc_loop(_, _, _)
crc_loop(init, octets, k) ==
    IF k = 0 THEN init
    ELSE Then(crc_loop(init, octets, k - 1), LAMBDA crc :
             crc_bits(BitXor(crc, octets[k] * 65536), 0))

\* crc_octets that starts from 0
crc_octets_from_zero(octets) ==
    BitAnd(crc_loop(0, octets, Len(octets)), CRC24_MASK)

\* crc_octets with the test of bit 24 before the shift and no mask at the end
RECURSIVE crc_bits_swapped(_, _)
crc_bits_swapped(crc, i) ==
    IF i = 8 THEN crc
    ELSE IF BitAnd(crc, CRC24_CARRY) # 0
         THEN crc_bits_swapped(2 * BitXor(crc, CRC24_POLY), i + 1)
         ELSE crc_bits_swapped(2 * crc, i + 1)

RECURSIVE crc_loop_swapped(_, _, _)
crc_loop_swapped(init, octets, k) ==
    IF k = 0 THEN init
    ELSE Then(crc_loop_swapped(init, octets, k - 1), LAMBDA crc :
             crc_bits_swapped(BitXor(crc, octets[k] * 65536), 0))

crc_octets_swapped(octets) == crc_loop_swapped(CRC24_INIT, octets, Len(octets))

\* crc24.rs:11-24
crc_octets(octets) ==
    BitAnd(crc_loop(CRC24_INIT, octets, Len(octets)), CRC24_MASK)

(***************************************************************************)
(* Base64, base64.rs:1-58: the struct is its field data, a sequence of     *)
(* u32.  An Option<Octet> is <<>> for None and <<v>> for Some(v).          *)
(***************************************************************************)
\* 0x3F, base64.rs:8
SEXTET_MASK == 63

\* Base64::new, base64.rs:16-20
Base64New(data) == data

\* Base64::push, base64.rs:22-24
push(data, sextet) == Append(data, BitAnd(sextet, SEXTET_MASK))

\* 6*(3-i) for the i-th of the four sextets, i counted from 1
SextetShift(i) == 6 * (4 - i)

\* the sextets of a group, the least significant first
sextets_of_lsb_first(octet) ==
    [i \in 1..4 |-> BitAnd(octet, SEXTET_MASK * 2^SextetShift(5 - i))
                    \div 2^SextetShift(5 - i)]

\* the loop of push_octet and from_octet, base64.rs:27-31 and 36-40: the
\* mask 0x3F << 18 is below 2^32, nothing is shifted out of the u32
sextets_of(octet) ==
    [i \in 1..4 |-> BitAnd(octet, SEXTET_MASK * 2^SextetShift(i))
                    \div 2^SextetShift(i)]

\* Base64::push_octet, base64.rs:26-32
push_octet(data, octet) == data \o sextets_of(octet)

\* Base64::from_octet, base64.rs:34-43
from_octet(octet) == Base64New(sextets_of(octet))

\* base64.rs:47-51: at most four sextets of six bits are shifted in, octet
\* stays below 2^24
RECURSIVE to_octet_loop(_, _, _)
to_octet_loop(octet, data, k) ==
    IF k > Len(data) THEN octet
    ELSE to_octet_loop(BitOr(octet * 64, BitAnd(data[k], SEXTET_MASK)), data, k + 1)

\* Base64::to_octet, base64.rs:45-57
to_octet(data) ==
    IF Len(data) <= 4 THEN <<to_octet_loop(0, data, 1)>> ELSE <<>>

(***************************************************************************)
(* The combinator lexer, armor_lexer.rs.  An ArmorToken is [kind, ch].     *)
(* The parsers of the crate combine take one character of the stream:      *)
(* char::upper the characters of char::is_uppercase, char::lower those of  *)
(* char::is_lowercase, char::digit those of char::is_digit(10),            *)
(* char::space those of char::is_whitespace, which the line feed and the   *)
(* carriage return are, char::newline the line feed, char::char(c) the     *)
(* character c.  A character outside ASCII is written by its code point,   *)
(* "U+00E9".                                                               *)
(*                                                                         *)
(* char::is_uppercase and char::is_lowercase read the tables of the        *)
(* Unicode version of the std the crate is built with, and the source      *)
(* names no version.  On ASCII every version agrees.  Outside ASCII the    *)
(* tables change from version to version, so the model takes neither       *)
(* answer for granted: is_uppercase and is_lowercase are the sets of the   *)
(* answers a build can give, and what is computed from them is a set too.  *)
(***************************************************************************)
ArmorToken(kind, ch) == [kind |-> kind, ch |-> ch]

\* the characters of one octet in UTF-8, those of ASCII: a character that
\* a string of TLA+ cannot hold is written by its code point
OneOctetChars ==
    {"U+0000", "U+0001", "U+0002", "U+0003", "U+0004", "U+0005", "U+0006",
     "U+0007", "U+0008", "\t", "\n", "U+000B", "\f", "U+000C", "\r", "U+000E",
     "U+000F", "U+0010", "U+0011", "U+0012", "U+0013", "U+0014", "U+0015",
     "U+0016", "U+0017", "U+0018", "U+0019", "U+001A", "U+001B", "U+001C",
     "U+001D", "U+001E", "U+001F", " ", "!", "\"", "#", "$", "%", "&", "'",
     "(", ")", "*", "+", ",", "-", ".", "/", "0", "1", "2", "3", "4", "5",
     "6", "7", "8", "9", ":", ";", "<", "=", ">", "?", "@", "A", "B", "C",
     "D", "E", "F", "G", "H", "I", "J", "K", "L", "M", "N", "O", "P", "Q",
     "R", "S", "T", "U", "V", "W", "X", "Y", "Z", "[", "\\", "]", "^", "_",
     "U+0060", "a", "b", "c", "d", "e", "f", "g", "h", "i", "j", "k", "l", "m",
     "n", "o", "p", "q", "r", "s", "t", "u", "v", "w", "x", "y", "z", "{",
     "|", "}", "~", "U+007F"}

\* char::is_whitespace other than the space, the tab and the line ends: the
\* rest of the property White_Space, which no character is a letter of; the
\* form feed is written "\f" or by its code point
UnicodeWhiteSpace ==
    {"\f", "U+000B", "U+000C", "U+0085", "U+00A0", "U+1680", "U+2000",
     "U+2001", "U+2002", "U+2003", "U+2004", "U+2005", "U+2006", "U+2007",
     "U+2008", "U+2009", "U+200A", "U+2028", "U+2029", "U+202F", "U+205F",
     "U+3000"}

\* the characters whose case every version of the tables has the same: those
\* of ASCII and the white space
SettledCase == OneOctetChars \cup UnicodeWhiteSpace

\* char::is_uppercase, used at armor_lexer.rs:57 and 153: the answers a build
\* can give
is_uppercase(ch) == IF ch \in SettledCase THEN {ch \in UpperCase} ELSE BOOLEAN

\* char::is_lowercase, used at armor_lexer.rs:68 and 154: the answers a build
\* can give
is_lowercase(ch) == IF ch \in SettledCase THEN {ch \in LowerCase} ELSE BOOLEAN

\* char::is_whitespace, used at armor_lexer.rs:105
char_is_whitespace(ch) ==
    ch \in {" ", "\t", "\n", "\r"} \cup UnicodeWhiteSpace

\* armor_lexer.rs:137-140: true of every character
is_utf8(ch) == TRUE

\* armor_lexer.rs:142-145
is_whitespace(ch) == ch = " " \/ ch = "\t"

\* armor_lexer.rs:147-150
is_newline(ch) == ch = "\n" \/ ch = "\r"

\* armor_lexer.rs:152-161, upper and lower the answers of ch.is_uppercase()
\* and ch.is_lowercase()
is_other_utf8_when(ch, upper, lower) ==
    is_utf8(ch) /\ ~(\/ is_whitespace(ch)
                     \/ upper
                     \/ lower
                     \/ ch \in Digits
                     \/ is_newline(ch)
                     \/ ch \in {"/", ",", ":", "="})

\* armor_lexer.rs:152-161: the answers a build can give
is_other_utf8(ch) ==
    {is_other_utf8_when(ch, upper, lower) :
        upper \in is_uppercase(ch), lower \in is_lowercase(ch)}

\* the alternatives of inner_armor_lexer in the order of armor_lexer.rs:203-211,
\* the first that takes the character; "None" when no alternative does;
\* upper and lower are the answers of the tables, the same for char::upper,
\* char::lower and is_other_utf8
armor_token_kind_when(ch, upper, lower) ==
    IF upper THEN "UpperCaseLetter"
    ELSE IF lower THEN "LowerCaseLetter"
    ELSE IF ch = "=" THEN "EqualSign"
    ELSE IF ch = ":" THEN "Colon"
    ELSE IF ch \in Digits THEN "Digit"
    ELSE IF char_is_whitespace(ch) THEN "WhiteSpace"
    ELSE IF ch = "," THEN "Comma"
    ELSE IF ch = "/" THEN "ForwardSlash"
    ELSE IF ch = "\n" THEN "NewLine"
    ELSE IF is_other_utf8_when(ch, upper, lower) THEN "OtherUtf8"
    ELSE "None"

\* the kinds a build can give the character
armor_token_kind(ch) ==
    {armor_token_kind_when(ch, upper, lower) :
        upper \in is_uppercase(ch), lower \in is_lowercase(ch)}

(***************************************************************************)
(* InnerArmorLexer::parse_lazy, armor_lexer.rs:190-192: one token and the  *)
(* rest of the stream, or an error; the set of the results a build can     *)
(* give, one result on a stream that starts with a character of ASCII.     *)
(***************************************************************************)
inner_parse_lazy_of(stream, kind) ==
    IF kind = "None"
    THEN [ok |-> FALSE, error |-> "unexpected", token |-> ArmorToken("None", ""),
          rest |-> stream]
    ELSE [ok |-> TRUE, error |-> "none",
          token |-> ArmorToken(kind, Head(stream)),
          rest |-> Tail(stream)]

inner_parse_lazy(stream) ==
    IF stream = <<>>
    THEN {[ok |-> FALSE, error |-> "end_of_input", token |-> ArmorToken("None", ""),
           rest |-> stream]}
    ELSE {inner_parse_lazy_of(stream, kind) : kind \in armor_token_kind(Head(stream))}

(***************************************************************************)
(* Token::is_valid_token, token.rs:169-321.  TokenType::armor_string of    *)
(* token.rs:46-72 spells the types as the one of lexer.rs does.  A         *)
(* character outside ASCII is written by its code point, "U+00E9".         *)
(***************************************************************************)
\* enum TokenType, token.rs:16-43
TokenTypes ==
    {"Pad", "ForwardSlash", "Colon", "Comma", "Digit", "Letter", "PlusSign",
     "WhiteSpace", "OtherUtf8", "ColonSpace", "NewLine", "FiveDashes", "Begin",
     "End", "Version", "Comment", "MessageID", "Hash", "Charset", "BlankLine",
     "PGPMessage", "PGPPublicKeyBlock", "PGPPrivateKeyBlock", "PGPMessagePart",
     "PGPSignature", "Eof"}

\* String::len, the number of octets of the text in UTF-8, is 1: the text is
\* one character of one octet
len_is_one(chars) == Len(chars) = 1 /\ chars[1] \in OneOctetChars

\* the shape of token.rs:169-183, 193-199, 205-243 and 268-290
is_spelled(token, token_type, spelling) ==
    token.token_type = token_type /\ token.text = spelling

\* token.rs:185-187
is_digit(token) ==
    token.token_type = "Digit" /\ Len(token.text) = 1 /\ token.text[1] \in Digits

\* token.rs:189-191
is_letter(token) ==
    token.token_type = "Letter" /\ Len(token.text) = 1 /\ token.text[1] \in Letters

\* token.rs:201-203
is_other_utf8_token(token) ==
    token.token_type = "OtherUtf8" /\ len_is_one(token.text)

\* token.rs:209-211
is_newline_token(token) ==
    token.token_type = "NewLine" /\ token.text \in {<<"\n">>, <<"\r">>}

\* token.rs:252-263: spaces, a line end, and nothing after it
RECURSIVE blankline_rest(_)
blankline_rest(chars) ==
    IF chars = <<>> THEN FALSE
    ELSE IF Head(chars) = " " THEN blankline_rest(Tail(chars))
    ELSE IF Head(chars) \in {"\n", "\r"} THEN Tail(chars) = <<>>
    ELSE FALSE

\* token.rs:245-266
is_blankline(token) ==
    /\ token.text # <<>>
    /\ Head(token.text) \in {"\n", "\r"}
    /\ blankline_rest(Tail(token.text))
    /\ token.token_type = "BlankLine"

\* token.rs:276-278: the type compared is PGPPublicKeyBlock
is_pgp_privatekey_block(token) ==
    is_spelled(token, "PGPPublicKeyBlock", armor_string("PGPPrivateKeyBlock"))

\* token.rs:292-321
is_valid_token(token) ==
    CASE token.token_type = "Pad" -> is_spelled(token, "Pad", <<"=">>)
      [] token.token_type = "ForwardSlash" -> is_spelled(token, "ForwardSlash", <<"/">>)
      [] token.token_type = "Colon" -> is_spelled(token, "Colon", <<":">>)
      [] token.token_type = "Comma" -> is_spelled(token, "Comma", <<",">>)
      [] token.token_type = "Digit" -> is_digit(token)
      [] token.token_type = "Letter" -> is_letter(token)
      [] token.token_type = "PlusSign" -> is_spelled(token, "PlusSign", <<"+">>)
      [] token.token_type = "WhiteSpace" -> is_spelled(token, "WhiteSpace", <<" ">>)
      [] token.token_type = "OtherUtf8" -> is_other_utf8_token(token)
      [] token.token_type = "ColonSpace" -> is_spelled(token, "ColonSpace", <<":", " ">>)
      [] token.token_type = "NewLine" -> is_newline_token(token)
      [] token.token_type = "FiveDashes" ->
            is_spelled(token, "FiveDashes", <<"-", "-", "-", "-", "-">>)
      [] token.token_type = "Begin" ->
            is_spelled(token, "Begin", <<"B", "E", "G", "I", "N", " ">>)
      [] token.token_type = "End" -> is_spelled(token, "End", <<"E", "N", "D", " ">>)
      [] token.token_type = "Version" ->
            is_spelled(token, "Version", <<"V", "e", "r", "s", "i", "o", "n">>)
      [] token.token_type = "Comment" ->
            is_spelled(token, "Comment", <<"C", "o", "m", "m", "e", "n", "t">>)
      [] token.token_type = "MessageID" ->
            is_spelled(token, "MessageID",
                       <<"M", "e", "s", "s", "a", "g", "e", "I", "D">>)
      [] token.token_type = "Hash" -> is_spelled(token, "Hash", <<"H", "a", "s", "h">>)
      [] token.token_type = "Charset" ->
            is_spelled(token, "Charset", <<"C", "h", "a", "r", "s", "e", "t">>)
      [] token.token_type = "BlankLine" -> is_blankline(token)
      [] token.token_type = "PGPMessage" ->
            is_spelled(token, "PGPMessage", armor_string("PGPMessage"))
      [] token.token_type = "PGPPublicKeyBlock" ->
            is_spelled(token, "PGPPublicKeyBlock", armor_string("PGPPublicKeyBlock"))
      [] token.token_type = "PGPPrivateKeyBlock" -> is_pgp_privatekey_block(token)
      [] token.token_type = "PGPMessagePart" ->
            is_spelled(token, "PGPMessagePart", armor_string("PGPMessagePart"))
      [] token.token_type = "PGPSignature" ->
            is_spelled(token, "PGPSignature", armor_string("PGPSignature"))
      [] token.token_type = "Eof" -> is_spelled(token, "Eof", <<"E", "O", "F">>)

(***************************************************************************)
(* The texts the lexer and the parser are run on.                          *)
(***************************************************************************)
\* characters of the exhaustively enumerated texts: one of each class
\* next_token tells apart, and the first letters of "BEGIN " and "END "
Sigma == {"-", "B", "E", "x", "1", ":", " ", "\n", "*"}

\* digits of the part numbers
PartDigits == {"0", "3"}

\* all texts over chars of length lo..hi
TextsOver(chars, lo, hi) == UNION {[1..n -> chars] : n \in lo..hi}

ShortTexts == TextsOver(Sigma, 0, MaxLen) \cup {<<"\t">>, <<".">>}

LineFeed == <<"\n">>

\* an empty line after a line terminator
BlankLineText == <<"\n", "\n">>

\* the header line of the message of RFC 4880, parser.rs:624
VersionLine ==
    <<"V", "e", "r", "s", "i", "o", "n", ":", " ", "O", "p", "e", "n", "P",
      "r", "i", "v", "a", "c", "y", " ", "0", ".", "9", "9">>

VersionValue == SubSeq(VersionLine, 10, Len(VersionLine))

\* longest run of 'P' put in front of an envelope type
MaxPad == 5

RECURSIVE Pad(_, _)
Pad(k, body) == IF k = 0 THEN body ELSE <<"P">> \o Pad(k - 1, body)

PartNumbers == TextsOver(PartDigits, 1, MaxDigits)

PlainTypes == {"PGPMessage", "PGPPublicKeyBlock", "PGPPrivateKeyBlock", "PGPSignature"}

PartXText(x) == armor_string("PGPMessagePart") \o x

PartXofYText(x, y) == armor_string("PGPMessagePart") \o x \o <<"/">> \o y

\* what stands between the keyword and the closing dashes of an envelope line
TypeBodies ==
    {armor_string(t) : t \in PlainTypes}
    \cup {PartXText(x) : x \in PartNumbers}
    \cup {PartXofYText(x, y) : x \in PartNumbers, y \in PartNumbers}

EnvelopeLine(keyword, body) ==
    armor_string("FiveDashes") \o armor_string(keyword) \o body
    \o armor_string("FiveDashes")

\* the envelope lines of the tests, parser.rs:528-598: a line and a blank line
EnvelopeLineTexts ==
    {EnvelopeLine(keyword, Pad(k, body)) \o BlankLineText :
        keyword \in {"Begin", "End"}, k \in 0..MaxPad, body \in TypeBodies}

\* the envelope types of the armors
ArmorBodies ==
    {armor_string(t) : t \in PlainTypes}
    \cup {PartXText(<<"3">>), PartXofYText(<<"0">>, <<"3">>)}

PaddedArmorBodies == {Pad(k, body) : k \in 0..MaxPad, body \in ArmorBodies}

\* a BEGIN line, no header, no payload, an END line
Armor(begin_body, end_body) ==
    EnvelopeLine("Begin", begin_body) \o BlankLineText
    \o EnvelopeLine("End", end_body)

ArmorTexts == {Armor(b, e) : b \in PaddedArmorBodies, e \in PaddedArmorBodies}

\* the head of the message of RFC 4880 section 6.6
MessageHead ==
    EnvelopeLine("Begin", armor_string("PGPMessage")) \o LineFeed
    \o VersionLine \o LineFeed \o LineFeed

Prefixes(t) == {SubSeq(t, 1, n) : n \in 0..Len(t)}

\* texts that end inside a production
TruncatedTexts ==
    Prefixes(MessageHead)
    \cup Prefixes(EnvelopeLine("End", armor_string("PGPMessage")))
    \cup Prefixes(armor_string("Version") \o <<":", " ", "a", " ", "b", "\n", "\n">>)
    \cup {armor_string("FiveDashes") \o armor_string("Begin")
          \o Pad(3, armor_string("PGPMessagePart")) \o <<"3", "/">>}

(***************************************************************************)
(* Header blocks, parser.rs:618-640: lines 'Key: value', each ended by a   *)
(* line feed, and a blank line after the last.                             *)
(***************************************************************************)
\* most spaces in front of a key or behind a value
MaxSpaces == 1

\* most lines of a header block
MaxLines == 2

RECURSIVE Spaces(_)
Spaces(n) == IF n = 0 THEN <<>> ELSE <<" ">> \o Spaces(n - 1)

\* the reserved keys of the header lines of the model
ReservedKeys == {"Hash", "Version"}

\* names that are none of the five reserved keys
OtherNames == {<<"x">>, <<"x", "1">>}

\* values that are letters and inner spaces
PlainValues == {<<"a">>, <<"a", " ", "b">>}

\* values that start with the first letter of a literal, or are one
HeaderValues == PlainValues \cup {<<"B", "x">>, armor_string("Version")}

HeaderLine(lead, name, value, trail) ==
    Spaces(lead) \o name \o armor_string("ColonSpace") \o value \o Spaces(trail)

\* the lines, a line feed after each, and the line feed of the blank line
RECURSIVE HeaderBlockText(_)
HeaderBlockText(lines) ==
    IF lines = <<>> THEN LineFeed
    ELSE Head(lines) \o LineFeed \o HeaderBlockText(Tail(lines))

\* the (key, value) pairs of blocks of reserved keys
BlockPairs == [key : ReservedKeys, value : {<<"a">>, <<"b">>}]

PairBlocks == UNION {[1..n -> BlockPairs] : n \in 1..MaxLines}

PairLine(pair) == HeaderLine(0, armor_string(pair.key), pair.value, 0)

PairBlockText(pairs) ==
    HeaderBlockText([i \in 1..Len(pairs) |-> PairLine(pairs[i])])

\* one line with any name, value and spaces, ended by a blank line
OneLineBlocks ==
    {HeaderBlockText(<<HeaderLine(lead, name, value, trail)>>) :
        lead \in 0..MaxSpaces, trail \in 0..MaxSpaces,
        name \in {armor_string(k) : k \in ReservedKeys} \cup OtherNames,
        value \in HeaderValues}

\* one line ended by its line feed only
OneLineTexts ==
    {HeaderLine(0, armor_string(k), value, 0) \o LineFeed :
        k \in ReservedKeys, value \in HeaderValues}

HeaderBlockTexts ==
    OneLineBlocks \cup OneLineTexts \cup {PairBlockText(b) : b \in PairBlocks}

(***************************************************************************)
(* Texts of single tokens: keywords, blank lines and line ends.            *)
(***************************************************************************)
\* the reserved header keys, lexer.rs:195-222 and 255-262
HeaderKeywords == {"Version", "Comment", "MessageID", "Hash", "Charset"}

\* a keyword, at the start or behind spaces, at the end or before a value
KeywordTexts ==
    {Spaces(lead) \o armor_string(k) \o tail :
        lead \in 0..MaxSpaces, k \in HeaderKeywords,
        tail \in {<<>>, <<":", " ", "a">>}}

\* what stands in front of a blank line: nothing, a letter, and two pairs
\* of characters of which the lexer returns one token
BlankLinePrefixes == {<<>>, <<"x">>, <<"B", "x">>, <<":", ":">>}

\* a line feed, spaces, a line feed
BlankLineOf(n) == LineFeed \o Spaces(n) \o LineFeed

BlankLineTexts ==
    {pre \o BlankLineOf(n) : pre \in BlankLinePrefixes, n \in 0..MaxSpaces}

\* LF, CR and CRLF, alone and between letters
LineEndTexts ==
    {<<"\n">>, <<"\r">>, <<"\r", "\n">>, <<"x", "\n">>, <<"x", "\r">>,
     <<"x", "\n", "x">>, <<"x", "\r", "\n", "x">>}

(***************************************************************************)
(* A header with a long value.                                             *)
(***************************************************************************)
\* letters of the longest header value
MaxValue == 18

\* a value of n letters
RECURSIVE LetterRun(_)
LetterRun(n) == IF n = 0 THEN <<>> ELSE <<"a">> \o LetterRun(n - 1)

\* a BEGIN line and a header block of one Version line behind it
LongHeaderText(n) ==
    EnvelopeLine("Begin", armor_string("PGPMessage"))
    \o HeaderBlockText(<<HeaderLine(0, armor_string("Version"), LetterRun(n), 0)>>)

LongHeaderTexts == {LongHeaderText(n) : n \in {1, MaxValue}}

(***************************************************************************)
(* Header lines whose value holds a reserved keyword, as 'Comment: Hash    *)
(* list' does.                                                             *)
(***************************************************************************)
\* what stands in the value before and after the keyword
ValueHeads == {<<>>, <<"a", " ">>}

ValueTails == {<<>>, <<" ", "l", "i", "s", "t">>}

KeywordValue(pre, k, post) == pre \o armor_string(k) \o post

\* a Comment line with such a value, and the blank line after it
KeywordValueText(pre, k, post) ==
    HeaderBlockText(<<HeaderLine(0, armor_string("Comment"),
                                 KeywordValue(pre, k, post), 0)>>)

KeywordValueTexts ==
    {KeywordValueText(pre, k, post) :
        pre \in ValueHeads, k \in HeaderKeywords, post \in ValueTails}

(***************************************************************************)
(* Envelope lines that are not well formed: a type that is none of the     *)
(* five, and a type with something between it and the closing dashes.      *)
(***************************************************************************)
\* what stands in the place of the type
WrongTypes ==
    {<<>>, <<"x">>, <<"3">>, <<" ">>, armor_string("Begin"),
     armor_string("Version")}

\* what stands between the type and the closing dashes
Followers == {<<"x">>, <<" ">>, <<"/">>}

WrongEnvelopeTexts ==
    {EnvelopeLine(keyword, body) :
        keyword \in {"Begin", "End"}, body \in WrongTypes}
    \cup {EnvelopeLine(keyword, Pad(k, body) \o f) :
             keyword \in {"Begin", "End"}, k \in {0, 3}, body \in ArmorBodies,
             f \in Followers}

Inputs ==
    WrongEnvelopeTexts \cup ShortTexts \cup EnvelopeLineTexts \cup ArmorTexts \cup TruncatedTexts
    \cup HeaderBlockTexts \cup KeywordTexts \cup BlankLineTexts
    \cup LineEndTexts \cup LongHeaderTexts \cup KeywordValueTexts

(***************************************************************************)
(* The octet slices crc_octets is run on.                                  *)
(***************************************************************************)
\* longest slice that is enumerated exhaustively
MaxOctets == 3

\* octets of the enumerated slices: no bit, the lowest, the highest, all
SampleOctets == {0, 1, 128, 255}

\* tests::crc_octets_test_cases and crc_octets_empty_case, crc24.rs:43-76
CrcTestCases ==
    {[octets |-> <<20, 251, 156, 3, 217, 126>>, crc |-> 6927321],
     [octets |-> <<20, 251, 156, 3, 217>>, crc |-> 8726480],
     [octets |-> <<20, 251, 156, 3>>, crc |-> 15804535],
     [octets |-> <<213, 240, 50, 138, 160, 169, 31, 173, 29, 220, 34, 182>>,
      crc |-> 6688197],
     [octets |-> <<>>, crc |-> CRC24_INIT]}

OctetSlices ==
    TextsOver(SampleOctets, 0, MaxOctets) \cup {t.octets : t \in CrcTestCases}

(***************************************************************************)
(* The groups of three octets Base64 is run on.                            *)
(***************************************************************************)
\* the groups 0..MaxGroup are enumerated: they cross the first sextet
MaxGroup == 70

\* number of calls on one Base64
MaxB64Ops == 3

\* tests::base64_test_cases, base64.rs:71-78
Base64TestCases ==
    {7240085, 14366417, 6011239, 6863944, 6985042, 6801414, 6167294, 9221802,
     15136546, 15316518, 3044049, 15051773, 3989160, 4358160, 11327844, 7311404}

\* the ends of the sextets and of the 24 bits, and values above 24 bits
BoundaryGroups ==
    {2^6 - 1, 2^6, 2^12 - 1, 2^12, 2^18 - 1, 2^18, 2^24 - 1, 2^24, 2^24 + 1,
     2^30 + 5}

Groups == 0..MaxGroup \cup Base64TestCases \cup BoundaryGroups

\* the arguments of push: sextets, and values of more than six bits
SampleSextets == {0, 63, 65, 255}

\* the slices Base64::new is called on: sextets, and values of more than
\* six bits
SampleData == {<<>>, <<0>>, <<63>>, <<1, 2, 3, 4>>, <<64>>, <<0, 255>>}

(***************************************************************************)
(* The texts ArmorLexer is run on.                                         *)
(***************************************************************************)
\* longest text given to ArmorLexer
MaxArmored == 2

\* most tokens the model lets ArmorLexer keep
MaxParsed == 4

\* one character of each alternative of inner_armor_lexer, and two outside
\* ASCII
ArmorChars ==
    {"B", "x", "=", ":", "1", " ", "\n", ",", "/", "-", "U+00E9", "U+20AC"}

ArmoredTexts == TextsOver(ArmorChars, 0, MaxArmored)

(***************************************************************************)
(* The tokens is_valid_token is called on.                                 *)
(***************************************************************************)
\* most spaces inside a blank line
MaxBlank == 2

\* the types TokenType::armor_string spells
SpelledTokenTypes == {t \in TokenTypes : armor_string(t) # NoString}

\* a letter of each case, a digit, characters of no class, in and outside ASCII
SingleChars == {"a", "Z", "7", "*", "-", "\r", "U+00E9"}

\* a line end, spaces, a line end
BlankLines == {<<"\n">> \o Spaces(n) \o <<"\n">> : n \in 0..MaxBlank}

\* texts that are the text of no valid token
OddTexts == {<<>>, <<"a", "b">>, <<"\n", "x">>, <<"\n", " ">>, <<"\n", "\n", "\n">>}

TokenTexts ==
    {armor_string(t) : t \in SpelledTokenTypes}
    \cup {<<ch>> : ch \in SingleChars} \cup BlankLines \cup OddTexts

CheckedTokens == {Token(t, s, 0) : t \in TokenTypes, s \in TokenTexts}

(***************************************************************************)
(* The state: a text, a Lexer over it that is used as an iterator, and a   *)
(* Parser over a second Lexer of the same text (parser.rs:512-526).        *)
(***************************************************************************)
VARIABLES
    text,       \* the characters given to Lexer::new
    stage,      \* "new", "lexing", "parsing", or "aborted" after a panic
    lexer,      \* the Lexer that is used on its own
    last,       \* what the last call on that Lexer returned
    tokens,     \* the tokens that Lexer has returned, Eof excluded
    parser,     \* the Parser
    calls,      \* the productions called on the Parser and their results
    octets,     \* the slice given to crc_octets
    crc,        \* <<>>, or <<c>> when crc_octets has returned c
    octet,      \* the group of three octets given to from_octet
    base64,     \* the field data of the Base64
    decoded,    \* what to_octet returned
    b64calls,   \* the functions of Base64 called, in order
    armored_data,   \* the stream given to ArmorLexer::parse_lazy
    parsed,     \* the Vec parsed of parse_lazy
    consumed,   \* the Vec consumed of parse_lazy
    returned,   \* "running" in the loop, or what parse_lazy has returned
    checked_token,  \* the Token is_valid_token is called on
    valid       \* <<>>, or <<b>> when is_valid_token has returned b

\* the state of the lexer and the parser
armorvars == <<text, stage, lexer, last, tokens, parser, calls>>

\* the state of the checksum
crcvars == <<octets, crc>>

\* the state of the Base64
b64vars == <<octet, base64, decoded, b64calls>>

\* the state of ArmorLexer::parse_lazy
lexvars == <<armored_data, parsed, consumed, returned>>

\* the state of the check of a token
tokenvars == <<checked_token, valid>>

vars == <<armorvars, crcvars, b64vars, lexvars, tokenvars>>

\* a lexer and a parser over text, nothing called yet
ArmorInit(t) ==
    /\ text = t
    /\ stage = "new"
    /\ lexer = LexerNew(t)
    /\ last = NoToken
    /\ tokens = <<>>
    /\ parser = ParserNew(LexerNew(t))
    /\ calls = <<>>

\* a slice, crc_octets not called yet
CrcInit(o) ==
    /\ octets = o
    /\ crc = <<>>

\* a group, no Base64 made of it yet
B64Init(v) ==
    /\ octet = v
    /\ base64 = <<>>
    /\ decoded = <<>>
    /\ b64calls = <<>>

\* parse_lazy called on a stream, armor_lexer.rs:225-227
LexInit(s) ==
    /\ armored_data = s
    /\ parsed = <<>>
    /\ consumed = <<>>
    /\ returned = "running"

\* a token, is_valid_token not called yet
TokenInit(t) ==
    /\ checked_token = t
    /\ valid = <<>>

Init ==
    /\ \E t \in Inputs : ArmorInit(t)
    /\ CrcInit(<<>>)
    /\ B64Init(0)
    /\ LexInit(<<>>)
    /\ TokenInit(NoToken)

\* one call on the Lexer: s is what the call returns
LexerCall(s) ==
    /\ stage \in {"new", "lexing"}
    /\ stage' = IF s.panic THEN "aborted" ELSE "lexing"
    /\ lexer' = s.lx
    /\ last' = s.tok
    /\ tokens' = IF s.panic \/ s.tok.token_type \in {"None", "Eof"} THEN tokens
                 ELSE Append(tokens, s.tok)
    /\ UNCHANGED <<text, parser, calls, crcvars, b64vars, lexvars, tokenvars>>

\* Lexer::next_token, lexer.rs:156-277
NextToken == LexerCall(next_token(lexer))

\* Lexer::next of the Iterator, lexer.rs:559-570
LexerNext == LexerCall(lexer_next(lexer))

\* one production called on the Parser: r is what the call returns
ParserCall(op, r) ==
    /\ stage \in {"new", "parsing"}
    /\ Len(calls) < MaxOps
    /\ stage' = IF r.res.kind = "Panic" THEN "aborted" ELSE "parsing"
    /\ parser' = r.ps
    /\ calls' = Append(calls, [op |-> op, res |-> r.res])
    /\ UNCHANGED <<text, lexer, last, tokens, crcvars, b64vars, lexvars, tokenvars>>

ParseHeaderLine == ParserCall("parse_header_line", parse_header_line(parser))

ParseTailLine == ParserCall("parse_tail_line", parse_tail_line(parser))

ParseHeaderKV == ParserCall("parse_headerkv", parse_headerkv(parser))

ParseHeaderBlock == ParserCall("parse_header_block", parse_header_block(parser))

ParseHeader == ParserCall("parse_header", parse_header(parser))

ParseTail == ParserCall("parse_tail", parse_tail(parser))

Next ==
    \/ NextToken
    \/ LexerNext
    \/ ParseHeaderLine
    \/ ParseTailLine
    \/ ParseHeaderKV
    \/ ParseHeaderBlock
    \/ ParseHeader
    \/ ParseTail

Spec == Init /\ [][Next]_vars

(***************************************************************************)
(* crc_octets on a slice, crc24.rs:78-83.                                  *)
(***************************************************************************)
CrcSpecInit ==
    /\ ArmorInit(<<>>)
    /\ \E o \in OctetSlices : CrcInit(o)
    /\ B64Init(0)
    /\ LexInit(<<>>)
    /\ TokenInit(NoToken)

CrcOctets ==
    /\ crc = <<>>
    /\ crc' = <<crc_octets(octets)>>
    /\ UNCHANGED <<octets, armorvars, b64vars, lexvars, tokenvars>>

CrcNext == CrcOctets

CrcSpec == CrcSpecInit /\ [][CrcNext]_vars

(***************************************************************************)
(* A Base64 made of a group and the calls on it, base64.rs:80-86.          *)
(***************************************************************************)
B64SpecInit ==
    /\ ArmorInit(<<>>)
    /\ CrcInit(<<>>)
    /\ \E v \in Groups : B64Init(v)
    /\ LexInit(<<>>)
    /\ TokenInit(NoToken)

\* one function of Base64 that leaves data as the Base64
B64Call(name, data) ==
    /\ Len(b64calls) < MaxB64Ops
    /\ "to_octet" \notin {b64calls[i] : i \in 1..Len(b64calls)}
    /\ base64' = data
    /\ b64calls' = Append(b64calls, name)
    /\ UNCHANGED <<octet, decoded, armorvars, crcvars, lexvars, tokenvars>>

FromOctet == b64calls = <<>> /\ B64Call("from_octet", from_octet(octet))

NewBase64 ==
    /\ b64calls = <<>>
    /\ \E data \in SampleData : B64Call("new", Base64New(data))

PushOctet == b64calls # <<>> /\ B64Call("push_octet", push_octet(base64, octet))

Push == \E sextet \in SampleSextets : B64Call("push", push(base64, sextet))

ToOctet ==
    /\ Len(b64calls) < MaxB64Ops
    /\ "to_octet" \notin {b64calls[i] : i \in 1..Len(b64calls)}
    /\ decoded' = to_octet(base64)
    /\ b64calls' = Append(b64calls, "to_octet")
    /\ UNCHANGED <<octet, base64, armorvars, crcvars, lexvars, tokenvars>>

B64Next == FromOctet \/ NewBase64 \/ PushOctet \/ Push \/ ToOctet

B64Spec == B64SpecInit /\ [][B64Next]_vars

(***************************************************************************)
(* ArmorLexer::parse_lazy on a stream, armor_lexer.rs:225-253, one         *)
(* iteration of its loop at a time.                                        *)
(***************************************************************************)
LexSpecInit ==
    /\ ArmorInit(<<>>)
    /\ CrcInit(<<>>)
    /\ B64Init(0)
    /\ \E s \in ArmoredTexts : LexInit(s)
    /\ TokenInit(NoToken)

\* armor_lexer.rs:230-243: the inner lexer is given a clone of input, and
\* input is what it was in the iteration before
LexLoop ==
    /\ returned = "running"
    /\ Len(parsed) < MaxParsed
    /\ \E r \in inner_parse_lazy(armored_data) :
           /\ r.ok
           /\ parsed' = Append(parsed, r.token)
           /\ consumed' = Append(consumed, r.rest)
    /\ UNCHANGED <<armored_data, returned, armorvars, crcvars, b64vars, tokenvars>>

\* armor_lexer.rs:236-252: the error that ends the loop, and the return
LexReturn ==
    /\ returned = "running"
    /\ \E r \in inner_parse_lazy(armored_data) :
           /\ ~r.ok
           /\ returned' = IF r.error # "end_of_input"
                          THEN "Err"
                          ELSE IF consumed = <<>> THEN "Panic" ELSE "Ok"
    /\ UNCHANGED <<armored_data, parsed, consumed, armorvars, crcvars, b64vars, tokenvars>>

LexNext == LexLoop \/ LexReturn

LexSpec == LexSpecInit /\ [][LexNext]_vars

(***************************************************************************)
(* Token::is_valid_token on a token, armor_lexer_tests.rs:19-21.           *)
(***************************************************************************)
TokenSpecInit ==
    /\ ArmorInit(<<>>)
    /\ CrcInit(<<>>)
    /\ B64Init(0)
    /\ LexInit(<<>>)
    /\ \E t \in CheckedTokens : TokenInit(t)

IsValidToken ==
    /\ valid = <<>>
    /\ valid' = <<is_valid_token(checked_token)>>
    /\ UNCHANGED <<checked_token, armorvars, crcvars, b64vars, lexvars>>

TokenNext == IsValidToken

TokenSpec == TokenSpecInit /\ [][TokenNext]_vars

(***************************************************************************)
(* Helpers of the properties.                                              *)
(***************************************************************************)
OkResult(val) == [kind |-> "Ok", val |-> val]

ErrResult(error) == [kind |-> "Err", val |-> [error |-> error]]

\* the first production called on the parser is op
FirstCall(op) == Len(calls) >= 1 /\ calls[1].op = op

\* the texts of a sequence of tokens, one after the other
RECURSIVE TextOf(_)
TextOf(toks) == IF toks = <<>> THEN <<>> ELSE Head(toks).text \o TextOf(Tail(toks))

\* the iterator has reported the end of the stream
StreamEnded == stage = "lexing" /\ last.token_type \in {"None", "Eof"}

\* a text that is one envelope line and a blank line
LineText(keyword, body) == EnvelopeLine(keyword, body) \o BlankLineText

(***************************************************************************)
(* C1.  On the text '-----BEGIN PGP MESSAGE-----', line feed,              *)
(* 'Version: OpenPrivacy 0.99', line feed, blank line, parse_header        *)
(* returns Ok with header_type PGPMessage and the one header               *)
(* (Version, "OpenPrivacy 0.99").                                          *)
(***************************************************************************)
C1_MessageHeadParsed ==
    (text = MessageHead /\ FirstCall("parse_header"))
    => calls[1].res = OkResult(Header(PGPMessage,
                          <<[key |-> [tag |-> "Version"], value |-> VersionValue]>>))

(***************************************************************************)
(* C2.  For each of the four plain envelope types T, parse_header_line on  *)
(* '-----BEGIN T-----' and a blank line returns Ok with the MessageType of *)
(* T, and parse_tail_line on '-----END T-----' and a blank line does too.  *)
(***************************************************************************)
C2_PlainEnvelopeLines ==
    \A t \in PlainTypes :
        /\ (text = LineText("Begin", armor_string(t)) /\ FirstCall("parse_header_line"))
           => calls[1].res = OkResult([tag |-> t])
        /\ (text = LineText("End", armor_string(t)) /\ FirstCall("parse_tail_line"))
           => calls[1].res = OkResult([tag |-> t])

(***************************************************************************)
(* C3.  For all decimal numbers x and y, parse_header_line on              *)
(* '-----BEGIN PGP MESSAGE, PART x/y-----' returns                         *)
(* Ok(PGPMessagePartXofY(x, y)), and parse_tail_line does on the END line. *)
(***************************************************************************)
C3_PartXofYLines ==
    \A x \in PartNumbers, y \in PartNumbers :
        LET expected == OkResult(PGPMessagePartXofY(parse_usize(x), parse_usize(y)))
        IN  /\ (text = LineText("Begin", PartXofYText(x, y))
                /\ FirstCall("parse_header_line"))
               => calls[1].res = expected
            /\ (text = LineText("End", PartXofYText(x, y))
                /\ FirstCall("parse_tail_line"))
               => calls[1].res = expected

(***************************************************************************)
(* C4.  For every decimal number x, parse_header_line on                   *)
(* '-----BEGIN PGP MESSAGE, PART x-----' returns Ok(PGPMessagePartX(x)),   *)
(* and parse_tail_line does on the END line.                               *)
(***************************************************************************)
C4_PartXLines ==
    \A x \in PartNumbers :
        LET expected == OkResult(PGPMessagePartX(parse_usize(x)))
        IN  /\ (text = LineText("Begin", PartXText(x)) /\ FirstCall("parse_header_line"))
               => calls[1].res = expected
            /\ (text = LineText("End", PartXText(x)) /\ FirstCall("parse_tail_line"))
               => calls[1].res = expected

(***************************************************************************)
(* C5.  The tokenizer never fails: no call of next_token aborts, and a     *)
(* character that is in no other class ('*', '.', a tab) comes back as     *)
(* one OtherUtf8 token.                                                    *)
(***************************************************************************)
C5_LexerNeverAborts ==
    /\ calls = <<>> => stage # "aborted"
    /\ \A ch \in {"*", ".", "\t"} :
          (text = <<ch>> /\ calls = <<>> /\ stage # "new" /\ tokens # <<>>)
          => tokens[1] = Token("OtherUTF8", <<ch>>, 0)

(***************************************************************************)
(* C6.  No character is lost: when the lexer has reached the end of the    *)
(* stream, the texts of the tokens it returned, in order, are the input.   *)
(***************************************************************************)
C6_NoCharacterLost == StreamEnded => TextOf(tokens) = text

(***************************************************************************)
(* C7.  When the token stream ends before the production is complete, the  *)
(* parser returns Err(EndOfFile) and does not abort: parse_header_line on  *)
(* a BEGIN line cut after one of its tokens, parse_header_block on a       *)
(* header line with no blank line after it.                                *)
(***************************************************************************)
\* the BEGIN line of a message cut after its first, second and third token
CutBeginLines ==
    {armor_string("FiveDashes"),
     armor_string("FiveDashes") \o armor_string("Begin"),
     armor_string("FiveDashes") \o armor_string("Begin") \o armor_string("PGPMessage")}

\* a header line with no line after it
CutHeaderLine == armor_string("Version") \o <<":", " ", "a", " ", "b">>

C7_EndOfFileError ==
    /\ (text \in CutBeginLines /\ FirstCall("parse_header_line"))
       => calls[1].res = ErrResult("EndOfFile")
    /\ (text = CutHeaderLine /\ FirstCall("parse_header_block"))
       => calls[1].res = ErrResult("EndOfFile")

(***************************************************************************)
(* C8.  The envelope parse_header returns and the envelope a later         *)
(* parse_tail returns are the same whenever both calls return Ok: an       *)
(* armor whose BEGIN and END lines are of different types ends in an       *)
(* error.                                                                  *)
(***************************************************************************)
C8_EnvelopesPaired ==
    \A i \in 1..Len(calls), j \in 1..Len(calls) :
        (/\ i < j
         /\ calls[i].op = "parse_header" /\ calls[i].res.kind = "Ok"
         /\ calls[j].op = "parse_tail" /\ calls[j].res.kind = "Ok")
        => calls[i].res.val.header_type = calls[j].res.val

(***************************************************************************)
(* C10.  parse_header_line never returns PGPMessagePartXofY(x, y) unless   *)
(* 1 <= x <= y.                                                            *)
(***************************************************************************)
C10_PartIndexChecked ==
    \A k \in 1..Len(calls) :
        (/\ calls[k].op = "parse_header_line"
         /\ calls[k].res.kind = "Ok"
         /\ calls[k].res.val.tag = "PGPMessagePartXofY")
        => (1 <= calls[k].res.val.x /\ calls[k].res.val.x <= calls[k].res.val.y)

(***************************************************************************)
(* Helpers of the header-block properties.                                 *)
(***************************************************************************)
\* what parse_header_block returns for the lines of pairs
BlockOf(pairs) ==
    [block |-> [i \in 1..Len(pairs) |->
                    [key |-> token_type_to_header_type(pairs[i].key),
                     value |-> pairs[i].value]]]

(***************************************************************************)
(* C11.  parse_header_block accepts a line 'Name: value' whose Name is     *)
(* none of the five reserved keys and returns (OtherHeader(Name), value)   *)
(* for it, the name kept.                                                  *)
(***************************************************************************)
C11_OtherHeaderAccepted ==
    \A name \in OtherNames, value \in PlainValues :
        (/\ text = HeaderBlockText(<<HeaderLine(0, name, value, 0)>>)
         /\ FirstCall("parse_header_block"))
        => calls[1].res =
              OkResult([block |-> <<[key |-> [tag |-> "OtherHeader", name |-> name],
                                     value |-> value]>>])

(***************************************************************************)
(* C12.  For a header line 'K: v' ended by a line feed, parse_headerkv     *)
(* returns the value v, the text between ': ' and the end of the line,     *)
(* whether the line is the last of the text or a blank line follows.       *)
(***************************************************************************)
C12_ValueIsRestOfLine ==
    \A k \in ReservedKeys, value \in HeaderValues :
        (/\ \/ text = HeaderLine(0, armor_string(k), value, 0) \o LineFeed
            \/ text = HeaderBlockText(<<HeaderLine(0, armor_string(k), value, 0)>>)
         /\ FirstCall("parse_headerkv"))
        => calls[1].res = OkResult([key |-> token_type_to_header_type(k),
                                    value |-> value])

(***************************************************************************)
(* C13.  parse_header_block returns one (key, value) pair per header       *)
(* line, in the order of the lines; several Hash lines are all in the      *)
(* result.                                                                 *)
(***************************************************************************)
C13_OnePairPerLine ==
    \A pairs \in PairBlocks :
        (text = PairBlockText(pairs) /\ FirstCall("parse_header_block"))
        => calls[1].res = OkResult(BlockOf(pairs))

(***************************************************************************)
(* C14.  A header line with spaces before its key or after its value is    *)
(* accepted by parse_header_block, and the value returned has no space at  *)
(* either end.                                                             *)
(***************************************************************************)
C14_OuterSpacesDropped ==
    \A lead \in 0..MaxSpaces, trail \in 0..MaxSpaces, k \in ReservedKeys,
       value \in PlainValues :
        (/\ lead + trail > 0
         /\ text = HeaderBlockText(<<HeaderLine(lead, armor_string(k), value, trail)>>)
         /\ FirstCall("parse_header_block"))
        => calls[1].res = OkResult(BlockOf(<<[key |-> k, value |-> value]>>))

(***************************************************************************)
(* The CRC-24 of RFC 4880 section 6.1 as a division of polynomials over    *)
(* GF(2): a register of 24 bits that takes the bits of the octets, the     *)
(* highest first, and is reduced by x^24 + 0x864CFB.                       *)
(***************************************************************************)
RECURSIVE Rfc4880Octet(_, _, _)
Rfc4880Octet(register, byte, weight) ==
    IF weight = 0 THEN register
    ELSE IF (register \div (CRC24_CARRY \div 2)) % 2 # (byte \div weight) % 2
         THEN Rfc4880Octet(BitXor((2 * register) % CRC24_CARRY,
                                  CRC24_POLY - CRC24_CARRY),
                           byte, weight \div 2)
         ELSE Rfc4880Octet((2 * register) % CRC24_CARRY, byte, weight \div 2)

RECURSIVE Rfc4880Crc24(_, _)
Rfc4880Crc24(register, o) ==
    IF o = <<>> THEN register
    ELSE Then(Rfc4880Octet(register, Head(o), 128), LAMBDA shifted :
             Rfc4880Crc24(shifted, Tail(o)))

(***************************************************************************)
(* C15.  crc_octets is the CRC-24 of RFC 4880 section 6.1 on every slice;  *)
(* it returns 15804535 for [0x14,0xFB,0x9C,0x03], 8726480 for              *)
(* [0x14,0xFB,0x9C,0x03,0xD9] and 6927321 for [0x14,0xFB,0x9C,0x03,0xD9,   *)
(* 0x7E], the values of the tests.                                         *)
(***************************************************************************)
C15_CrcIsRfc4880 ==
    crc # <<>> =>
        /\ crc[1] = Rfc4880Crc24(CRC24_INIT, octets)
        /\ \A t \in CrcTestCases : octets = t.octets => crc[1] = t.crc

C15_Witness == octets = <<20, 251, 156, 3, 217, 126>> /\ crc = <<6927321>>

(***************************************************************************)
(* C16.  crc_octets of the empty slice is CRC24_INIT.                      *)
(***************************************************************************)
C16_CrcOfEmpty == (crc # <<>> /\ octets = <<>>) => crc[1] = CRC24_INIT

C16_Witness == octets = <<>> /\ crc # <<>>

(***************************************************************************)
(* C17.  crc_octets returns a value of 24 bits: 0 <= crc < 2^24.           *)
(***************************************************************************)
C17_CrcIn24Bits == crc # <<>> => (0 <= crc[1] /\ crc[1] < CRC24_CARRY)

C17_Witness ==
    /\ Len(octets) >= MaxOctets
    /\ crc # <<>>
    /\ crc[1] >= CRC24_CARRY \div 2

(***************************************************************************)
(* C18.  For every group v of 24 bits, Base64::from_octet(v).to_octet()    *)
(* is Some(v).                                                             *)
(***************************************************************************)
C18_Base64RoundTrip ==
    (b64calls = <<"from_octet", "to_octet">> /\ octet < 2^24)
    => decoded = <<octet>>

C18_Witness ==
    /\ b64calls = <<"from_octet", "to_octet">>
    /\ octet = 7240085
    /\ base64 = <<27, 39, 38, 21>>
    /\ decoded = <<7240085>>

(***************************************************************************)
(* C19.  ArmorLexer on a finite non-empty text returns Ok with one         *)
(* ArmorToken per character of the text, in the order of the text: it      *)
(* never holds more tokens than the text has characters, the k-th token    *)
(* is the token of the k-th character, and it does not abort.              *)
(***************************************************************************)
C19_OneTokenPerCharacter ==
    armored_data # <<>> =>
        /\ Len(parsed) <= Len(armored_data)
        /\ \A k \in 1..Len(parsed) :
              k <= Len(armored_data) => parsed[k].ch = armored_data[k]
        /\ returned \in {"running", "Ok"}

(***************************************************************************)
(* C20.  A token whose text is the spelling of its type is valid; so is    *)
(* a Letter, Digit or OtherUtf8 token of one character, a character        *)
(* outside ASCII included, and a BlankLine token.                          *)
(***************************************************************************)
\* the token is one the claim calls canonical
CanonicalToken(t) ==
    \/ t.token_type \in SpelledTokenTypes /\ t.text = armor_string(t.token_type)
    \/ t.token_type = "Letter" /\ Len(t.text) = 1 /\ t.text[1] \in Letters
    \/ t.token_type = "Digit" /\ Len(t.text) = 1 /\ t.text[1] \in Digits
    \/ /\ t.token_type = "OtherUtf8"
       /\ Len(t.text) = 1
       /\ t.text[1] \in {"*", "-", "U+00E9"}
    \/ t.token_type = "BlankLine" /\ t.text \in BlankLines

C20_CanonicalTokensValid ==
    (valid # <<>> /\ CanonicalToken(checked_token)) => valid[1]

(***************************************************************************)
(* Helpers of the properties of single tokens.                             *)
(***************************************************************************)
\* only the Lexer has been called
OnlyLexed == calls = <<>>

\* the types of a sequence of tokens
TypesOf(toks) == [i \in 1..Len(toks) |-> toks[i].token_type]

(***************************************************************************)
(* C21.  Where the input spells Version, Comment, MessageID, Hash or       *)
(* Charset, next_token returns one token of that type whose text is the    *)
(* keyword: at the start of the text and behind spaces, at the end of the  *)
(* text and before ': a'.                                                  *)
(***************************************************************************)
C21_KeywordsRecognised ==
    \A k \in HeaderKeywords, lead \in 0..MaxSpaces, tail \in {<<>>, <<":", " ", "a">>} :
        (OnlyLexed /\ text = Spaces(lead) \o armor_string(k) \o tail)
        => /\ stage = "aborted" => Len(tokens) > lead
           /\ Len(tokens) > lead
              => tokens[lead + 1] = Token(k, armor_string(k), lead)

(***************************************************************************)
(* C22.  At a ':' the call returns ColonSpace with the text ': ' when a    *)
(* space follows, and Colon with the text ':' otherwise, and what follows  *)
(* the text of the token is still to be read.                              *)
(***************************************************************************)
\* the token the first call returned is the only one so far
FirstTokenReturned == Len(tokens) = 1 /\ last = tokens[1]

C22_ColonOrColonSpace ==
    (OnlyLexed /\ text # <<>> /\ Head(text) = ":")
    => /\ stage = "aborted" => tokens # <<>>
       /\ FirstTokenReturned
          => IF Len(text) >= 2 /\ text[2] = " "
             THEN /\ tokens[1] = Token("ColonSpace", <<":", " ">>, 0)
                  /\ lexer.input = SubSeq(text, 3, Len(text))
             ELSE /\ tokens[1] = Token("Colon", <<":">>, 0)
                  /\ lexer.input = Tail(text)

(***************************************************************************)
(* C23.  A line feed, spaces and a line feed come back as one BlankLine    *)
(* token: its text is those characters, its location the offset of the     *)
(* first line feed, whatever stands in front of it.                        *)
(***************************************************************************)
C23_BlankLineToken ==
    \A pre \in BlankLinePrefixes, n \in 0..MaxSpaces :
        (OnlyLexed /\ text = pre \o BlankLineOf(n))
        => /\ stage # "aborted"
           /\ StreamEnded
              => /\ tokens # <<>>
                 /\ tokens[Len(tokens)] = Token("BlankLine", BlankLineOf(n), Len(pre))

(***************************************************************************)
(* C24.  A line feed or a carriage return that starts no blank line comes  *)
(* back as one NewLine token, a carriage return and a line feed as two:    *)
(* the texts of line ends and letters give NewLine and Letter tokens, one  *)
(* for each character.                                                     *)
(***************************************************************************)
C24_LineEndsTokenized ==
    (OnlyLexed /\ text \in LineEndTexts)
    => /\ stage # "aborted"
       /\ StreamEnded
          => TypesOf(tokens) = [i \in 1..Len(text) |->
                                   IF text[i] \in {"\n", "\r"} THEN "NewLine"
                                   ELSE "Letter"]

(***************************************************************************)
(* C25.  The location of a token that is not the end of the stream is the  *)
(* offset of the first character of its text in the input: the text of     *)
(* the token stands in the input at its location.                          *)
(***************************************************************************)
C25_LocationIsOffset ==
    (OnlyLexed /\ stage = "lexing" /\ last.token_type \notin {"None", "Eof"})
    => /\ last.location >= 0
       /\ last.location + Len(last.text) <= Len(text)
       /\ SubSeq(text, last.location + 1, last.location + Len(last.text)) = last.text

(***************************************************************************)
(* C26.  Every token next_token returns has a location that is not         *)
(* negative, the token of the end of the stream included.                  *)
(***************************************************************************)
C26_LocationNotNegative ==
    (OnlyLexed /\ stage = "lexing") => last.location >= 0

\* C26 as amended: a token before the end of the stream has a location
\* that is not negative; the Eof token has Location::eof(), which is -1.
C26_LocationNotNegativeBeforeEof ==
    (OnlyLexed /\ stage = "lexing")
    => /\ \A i \in 1..Len(tokens) : tokens[i].location >= 0
       /\ IF last.token_type = "Eof" THEN last.location = LocationEof
          ELSE last.location >= 0

\* a token returned after backtrack_ntimes has moved the location back
C26_Witness ==
    /\ text = <<"B", "x">>
    /\ last = Token("Letter", <<"x">>, 0)
    /\ lexer.location = 1

(***************************************************************************)
(* C27.  The Lexer as an iterator ends on every text: it does not abort,   *)
(* it yields no more tokens than the text has characters and none of type  *)
(* Eof, it returns None only when the input is exhausted, and the input    *)
(* is then exhausted for every later call.                                 *)
(***************************************************************************)
C27_IteratorEnds ==
    OnlyLexed
    => /\ stage # "aborted"
       /\ Len(tokens) <= Len(text)
       /\ \A i \in 1..Len(tokens) : tokens[i].token_type # "Eof"
       /\ StreamEnded => lexer.input = <<>>

(***************************************************************************)
(* C29.  While parse_header_line, parse_tail_line and parse_header run,    *)
(* the marker stack holds at most four entries: the longest stack any      *)
(* sequence of calls of the three has built has four.                      *)
(***************************************************************************)
\* every call so far is one of the three productions
OnlyLineCalls ==
    \A i \in 1..Len(calls) :
        calls[i].op \in {"parse_header_line", "parse_tail_line", "parse_header"}

C29_MarkerStackAtMostFour ==
    OnlyLineCalls
    => /\ parser.most_markers <= 4
       /\ Len(parser.markers) <= parser.most_markers

\* a line 'PART x/y' has been parsed and the stack held four marks: those
\* of parse_pgp_message_part, parse_part_x_div_y and its two parse_number
C29_Witness ==
    /\ FirstCall("parse_header_line")
    /\ Len(calls) = 1
    /\ calls[1].res.kind = "Ok"
    /\ calls[1].res.val.tag = "PGPMessagePartXofY"
    /\ parser.most_markers = 4

(***************************************************************************)
(* C30.  At every point of parse_header the lookahead buffer holds no      *)
(* more tokens than the capacity it was created with, however long the     *)
(* value of a header is.                                                   *)
(***************************************************************************)
\* parser.rs:113, VecDeque::with_capacity(20)
LookaheadCapacity == 20

C30_LookaheadWithinCapacity ==
    (\A i \in 1..Len(calls) : calls[i].op = "parse_header")
    => parser.most_lookahead <= LookaheadCapacity

(***************************************************************************)
(* The productions that set a mark at entry, parser.rs:202-337, called one *)
(* after the other on a Parser: a later call starts at the offset and on   *)
(* the marks an earlier one has left.                                      *)
(***************************************************************************)
\* what may follow the words 'PGP MESSAGE, PART '
PartTails ==
    {<<>>, <<"x">>, <<"3">>, <<"3", "x">>, <<"3", "/">>, <<"3", "/", "x">>,
     <<"3", "/", "0">>, <<"3", "/", "0", "x">>}
    \cup {<<"3">> \o armor_string("FiveDashes"),
          <<"3", "/", "0">> \o armor_string("FiveDashes")}

\* what stands in front of the numbers
ProductionHeads ==
    {<<>>, armor_string("FiveDashes"),
     Pad(3, armor_string("PGPMessagePart")),
     armor_string("FiveDashes") \o Pad(3, armor_string("PGPMessagePart"))}
    \cup {armor_string(t) : t \in PlainTypes}

\* 2^64, one more than usize::MAX
TooLargeNumber ==
    <<"1", "8", "4", "4", "6", "7", "4", "4", "0", "7", "3", "7", "0", "9",
      "5", "5", "1", "6", "1", "6">>

\* runs of digits: short ones, with a leading zero, and one past usize
DigitRuns == {<<"0">>, <<"3">>, <<"0", "3">>, <<"3", "0">>, TooLargeNumber}

\* a run of digits and the letter after it
NumberTexts == {d \o <<"x">> : d \in DigitRuns}

ProductionTexts ==
    {h \o t : h \in ProductionHeads, t \in PartTails} \cup NumberTexts

ProdSpecInit ==
    /\ \E t \in ProductionTexts : ArmorInit(t)
    /\ CrcInit(<<>>)
    /\ B64Init(0)
    /\ LexInit(<<>>)
    /\ TokenInit(NoToken)

ParseNumber == ParserCall("parse_number", parse_number(parser))

\* parse_token_lazy for a FiveDashes token and as the four productions of
\* parser.rs:311-337
ParseTokenLazy ==
    \E r \in {parse_token_lazy(parser, "FiveDashes", [tag |-> "FiveDashes"], "CorruptHeader"),
              parse_pgp_message(parser), parse_pgp_publickey_block(parser),
              parse_pgp_privatekey_block(parser), parse_pgp_signature(parser)} :
        ParserCall("parse_token_lazy", r)

ParsePartX == ParserCall("parse_part_x", parse_part_x(parser))

ParsePartXDivY == ParserCall("parse_part_x_div_y", parse_part_x_div_y(parser))

ParsePgpMessagePart ==
    ParserCall("parse_pgp_message_part", parse_pgp_message_part(parser))

ProdNext ==
    \/ ParseNumber
    \/ ParseTokenLazy
    \/ ParsePartX
    \/ ParsePartXDivY
    \/ ParsePgpMessagePart

ProdSpec == ProdSpecInit /\ [][ProdNext]_vars

(***************************************************************************)
(* C28.  A production that sets a mark at entry restores the cursor when   *)
(* it fails: when parse_number, parse_token_lazy, parse_part_x,            *)
(* parse_part_x_div_y or parse_pgp_message_part returns an error, the      *)
(* offset of the parser is the one it had when the production was entered. *)
(***************************************************************************)
C28_OffsetRestoredOnError ==
    [][(calls' # calls /\ calls'[Len(calls')].res.kind = "Err")
       => parser'.offset = parser.offset]_vars

(***************************************************************************)
(* The cursor of the parser, parser.rs:119-184: peek_token, read_token,    *)
(* mark, backtrack and consume called on a Parser in any order the         *)
(* productions call them in.  calls keeps each call and, for peek_token,   *)
(* the token it returned (NoToken for None).                               *)
(***************************************************************************)
\* longest sequence of calls on the cursor
MaxCursorOps == 6

CursorTexts ==
    {<<>>, <<"a">>, <<"a", "b">>, <<"a", " ", "b">>, <<"3", "/", "0">>,
     <<"B", "x", "y">>, <<"a", "*">>,
     armor_string("FiveDashes") \o armor_string("Begin")}

\* the tokens the Lexer yields as an iterator, up to None or an abort
RECURSIVE lexer_output(_)
lexer_output(lx) ==
    Let(lexer_next(lx), LAMBDA s :
        IF s.panic \/ s.tok.token_type = "None" THEN <<>>
        ELSE <<s.tok>> \o lexer_output(s.lx))

CursorSpecInit ==
    /\ \E t \in CursorTexts : ArmorInit(t)
    /\ CrcInit(<<>>)
    /\ B64Init(0)
    /\ LexInit(<<>>)
    /\ TokenInit(NoToken)

CursorCall(op, r) ==
    /\ stage \in {"new", "parsing"}
    /\ Len(calls) < MaxCursorOps
    /\ stage' = IF r.res.kind = "Panic" THEN "aborted" ELSE "parsing"
    /\ parser' = r.ps
    /\ calls' = Append(calls, [op |-> op, res |-> r.res])
    /\ UNCHANGED <<text, lexer, last, tokens, crcvars, b64vars, lexvars, tokenvars>>

\* the call before this one was a peek_token that returned a token
PeekedToken ==
    /\ calls # <<>>
    /\ calls[Len(calls)].op = "peek_token"
    /\ calls[Len(calls)].res.kind = "Ok"
    /\ calls[Len(calls)].res.val.token_type # "None"

PeekToken ==
    CursorCall("peek_token",
               Let(peek_token(parser), LAMBDA p :
                   IF p.panic THEN Panicked(p.ps) ELSE Ok(p.ps, p.tok)))

\* every read_token of parser.rs follows a peek_token that returned a token:
\* parser.rs:205-208, 227-235, 244-246, 270-274, 289-292, 371-384, 396-399,
\* 407-414, 422-425, 441-453
ReadToken ==
    /\ PeekedToken
    /\ CursorCall("read_token", Ok(read_token(parser), NoToken))

Mark == CursorCall("mark", Ok(mark(parser), NoToken))

Backtrack == CursorCall("backtrack", Ok(backtrack(parser), NoToken))

Consume == CursorCall("consume", Ok(consume(parser), NoToken))

CursorNext ==
    \/ PeekToken
    \/ ReadToken
    \/ Mark
    \/ Backtrack
    \/ Consume

CursorSpec == CursorSpecInit /\ [][CursorNext]_vars

(***************************************************************************)
(* C31.  peek_token does not consume: a peek_token called right after a    *)
(* peek_token returns the same token and changes neither the offset, the   *)
(* marker stack nor the lookahead buffer.                                  *)
(***************************************************************************)
C31_PeekDoesNotConsume ==
    [][(/\ calls' # calls
        /\ calls # <<>>
        /\ calls[Len(calls)].op = "peek_token"
        /\ calls'[Len(calls')].op = "peek_token")
       => /\ calls'[Len(calls')].res = calls[Len(calls)].res
          /\ parser'.offset = parser.offset
          /\ parser'.markers = parser.markers
          /\ parser'.lookahead = parser.lookahead]_vars

\* a token read, the one after it fetched by a peek_token and peeked again
C31_Witness ==
    /\ Len(calls) >= 4
    /\ calls[Len(calls) - 2].op = "read_token"
    /\ calls[Len(calls) - 1].op = "peek_token"
    /\ calls[Len(calls)].op = "peek_token"
    /\ calls[Len(calls)].res.kind = "Ok"
    /\ calls[Len(calls)].res.val.token_type # "None"
    /\ parser.offset = 1
    /\ Len(parser.lookahead) = 2

(***************************************************************************)
(* C32.  The parser sees the tokens of the lexer in order: peek_token      *)
(* returns the token at the position (tokens removed by consume + offset)  *)
(* of the output of the lexer, and None only past its end; and after a     *)
(* mark, reads and a backtrack, the peek_token/read_token pairs deliver    *)
(* the tokens again that were delivered between the mark and the           *)
(* backtrack.                                                              *)
(***************************************************************************)
\* the calls i..j are peek_token and read_token only
OnlyMoves(c, i, j) ==
    \A k \in i..j : c[k].op \in {"peek_token", "read_token"}

\* the number of read_token among the calls i..j
ReadsIn(c, i, j) == Cardinality({k \in i..j : c[k].op = "read_token"})

\* the peek_token of the last call looked at the position pos of the output
PeekInOrder(out, pos) ==
    LET res == calls[Len(calls)].res
    IN  (calls[Len(calls)].op = "peek_token" /\ res.kind = "Ok")
        => IF res.val.token_type = "None" THEN pos >= Len(out)
           ELSE pos < Len(out) /\ res.val = out[pos + 1]

\* the operations called so far
TypesOfCalls == [i \in 1..Len(calls) |-> calls[i].op]

\* a peek_token after a backtrack to a mark returns what the peek_token
\* after as many read_token returned between the mark and the backtrack
ReplayAfterBacktrack ==
    \A i \in 1..Len(calls), j \in 1..Len(calls) :
        (/\ i < j
         /\ calls[i].op = "mark"
         /\ calls[j].op = "backtrack"
         /\ OnlyMoves(calls, i + 1, j - 1))
        => \A p \in (i + 1)..(j - 1), q \in (j + 1)..Len(calls) :
               (/\ calls[p].op = "peek_token"
                /\ calls[q].op = "peek_token"
                /\ OnlyMoves(calls, j + 1, q)
                /\ ReadsIn(calls, i + 1, p) = ReadsIn(calls, j + 1, q))
               => calls[q].res = calls[p].res

C32_TokensInOrder ==
    (calls # <<>> /\ stage = "parsing")
    => /\ PeekInOrder(lexer_output(LexerNew(text)), parser.removed + parser.offset)
       /\ ReplayAfterBacktrack

\* mark, a token peeked and read, backtrack, and the token peeked again
C32_Witness ==
    /\ Len(calls) = 5
    /\ TypesOfCalls = <<"mark", "peek_token", "read_token", "backtrack", "peek_token">>
    /\ calls[5].res.kind = "Ok"
    /\ calls[5].res.val.token_type # "None"
    /\ calls[5].res = calls[2].res

(***************************************************************************)
(* C33.  The value of a header is not cut short at a reserved keyword:     *)
(* for a line 'Comment: v' whose value v holds Version, Comment,           *)
(* MessageID, Hash or Charset, parse_headerkv returns the whole of v, and  *)
(* parse_header_block returns the pair of the line without error.          *)
(***************************************************************************)
C33_KeywordInValueKept ==
    \A pre \in ValueHeads, k \in HeaderKeywords, post \in ValueTails :
        text = KeywordValueText(pre, k, post)
        => LET pair == [key |-> token_type_to_header_type("Comment"),
                        value |-> KeywordValue(pre, k, post)]
           IN  /\ FirstCall("parse_headerkv") => calls[1].res = OkResult(pair)
               /\ FirstCall("parse_header_block")
                  => calls[1].res = OkResult([block |-> <<pair>>])

(***************************************************************************)
(* C34.  parse_header_line returns Err(CorruptHeader) when the token after *)
(* the opening FiveDashes is End, parse_tail_line when it is Begin, and    *)
(* both when the token in the place of the envelope type is none of the    *)
(* five 'PGP ...' tokens or the type is not directly followed by           *)
(* FiveDashes, another token or none following it; no MessageType is       *)
(* returned then.                                                          *)
(***************************************************************************)
EnvelopeTypes == PlainTypes \cup {"PGPMessagePart"}

\* the index of the first token at or after i that is no Digit
RECURSIVE DigitsFrom(_, _)
DigitsFrom(out, i) ==
    IF i <= Len(out) /\ out[i].token_type = "Digit" THEN DigitsFrom(out, i + 1)
    ELSE i

\* the index of the token after the envelope type that starts at token 3:
\* a plain type is one token, a part is the token, a number and, where a
\* slash and a number follow, those
TypeEnd(out) ==
    IF out[3].token_type \in PlainTypes THEN 4
    ELSE Let(DigitsFrom(out, 4), LAMBDA a :
             IF /\ a <= Len(out)
                /\ out[a].token_type = "ForwardSlash"
                /\ DigitsFrom(out, a + 1) > a + 1
             THEN DigitsFrom(out, a + 1)
             ELSE a)

\* the tokens out are no line of the keyword: the other keyword, no type,
\* or a type and no FiveDashes after it, be it another token or the end of
\* the tokens
EnvelopeFault(out, keyword) ==
    /\ Len(out) >= 2
    /\ out[1].token_type = "FiveDashes"
    /\ \/ out[2].token_type = (IF keyword = "Begin" THEN "End" ELSE "Begin")
       \/ /\ out[2].token_type = keyword
          /\ Len(out) >= 3
          /\ \/ out[3].token_type \notin EnvelopeTypes
             \/ /\ out[3].token_type \in EnvelopeTypes
                /\ \/ TypeEnd(out) > Len(out)
                   \/ out[TypeEnd(out)].token_type # "FiveDashes"

\* the production of a keyword
LineOp(keyword) ==
    IF keyword = "Begin" THEN "parse_header_line" ELSE "parse_tail_line"

C34_EnvelopeErrors ==
    \A keyword \in {"Begin", "End"} :
        (FirstCall(LineOp(keyword))
         /\ EnvelopeFault(lexer_output(LexerNew(text)), keyword))
        => calls[1].res = ErrResult("CorruptHeader")

(***************************************************************************)
(* C35.  When parse_header_line, parse_tail_line, parse_headerkv or        *)
(* parse_header returns Ok, the marker stack is empty, the offset is 0,    *)
(* and the next peek_token returns the first token of the lexer after the  *)
(* last token the production accepted: the closing FiveDashes of a line,   *)
(* the BlankLine of a header, the last token of a value in front of a      *)
(* keyword or a BlankLine.                                                 *)
(***************************************************************************)
CommittingOps ==
    {"parse_header_line", "parse_tail_line", "parse_headerkv", "parse_header"}

\* the token at position i of out, None past its end
TokenAt(out, i) == IF i <= Len(out) THEN out[i] ELSE NoToken

\* the last of the tokens the production op accepted, and the token after it
AcceptedUpTo(op, accepted, following) ==
    CASE op \in {"parse_header_line", "parse_tail_line"} ->
             accepted.token_type = "FiveDashes"
      [] op = "parse_header" -> accepted.token_type = "BlankLine"
      [] op = "parse_headerkv" ->
             /\ accepted.token_type \notin HeaderKeywords \cup {"BlankLine"}
             /\ following.token_type \in HeaderKeywords \cup {"BlankLine"}

\* the parser after an Ok: nothing marked, and the buffer and the lexer
\* hold the tokens of out from the one after the removed ones on
CleanAfter(op, out) ==
    /\ parser.markers = <<>>
    /\ parser.offset = 0
    /\ parser.removed >= 1
    /\ parser.removed <= Len(out)
    /\ AcceptedUpTo(op, out[parser.removed], TokenAt(out, parser.removed + 1))
    /\ peek_token(parser).tok = TokenAt(out, parser.removed + 1)
    /\ parser.lookahead \o lexer_output(parser.lx)
       = SubSeq(out, parser.removed + 1, Len(out))

C35_CleanAfterOk ==
    (/\ calls # <<>>
     /\ calls[Len(calls)].op \in CommittingOps
     /\ calls[Len(calls)].res.kind = "Ok")
    => CleanAfter(calls[Len(calls)].op, lexer_output(LexerNew(text)))

\* parse_headerkv has returned the pair of 'Hash: a' and the BlankLine that
\* ended the value is the one token of the buffer
C35_Witness ==
    /\ text = HeaderBlockText(<<HeaderLine(0, armor_string("Hash"), <<"a">>, 0)>>)
    /\ Len(calls) = 1
    /\ calls[1].op = "parse_headerkv"
    /\ calls[1].res.kind = "Ok"
    /\ parser.removed = 3
    /\ Len(parser.lookahead) = 1
    /\ parser.lookahead[1].token_type = "BlankLine"

(***************************************************************************)
(* C36.  parse_header terminates on every finite stream of tokens: on a    *)
(* text of which the Lexer yields every token and then None, parse_header  *)
(* returns Ok or Err.                                                      *)
(***************************************************************************)
\* the Lexer as an iterator reaches None on the input of lx without abort
RECURSIVE lexer_ends(_)
lexer_ends(lx) ==
    Let(lexer_next(lx), LAMBDA s :
        IF s.panic THEN FALSE
        ELSE IF s.tok.token_type = "None" THEN TRUE
        ELSE lexer_ends(s.lx))

C36_ParseHeaderReturns ==
    (FirstCall("parse_header") /\ lexer_ends(LexerNew(text)))
    => calls[1].res.kind \in {"Ok", "Err"}

(***************************************************************************)
(* C37.  parse_number returns a result for every run of Digit tokens that  *)
(* a token follows: the value of the run and the cursor on the first       *)
(* token that is no digit when the value is in the range of usize, and an  *)
(* error, no abort, when it is larger.                                     *)
(***************************************************************************)
C37_NumberOrError ==
    \A d \in DigitRuns :
        (text = d \o <<"x">> /\ FirstCall("parse_number"))
        => IF exceeds_usize(d) THEN calls[1].res.kind = "Err"
           ELSE /\ calls[1].res = OkResult([n |-> parse_usize(d)])
                /\ Len(calls) = 1 => /\ parser.offset = Len(d)
                                     /\ peek_token(parser).tok.token_type = "Letter"

(***************************************************************************)
(* C38.  After any sequence of Base64::new, Base64::from_octet, push and   *)
(* push_octet, every sextet stored in the Base64 is in 0..63.              *)
(***************************************************************************)
C38_SextetsInRange ==
    \A i \in 1..Len(base64) : 0 <= base64[i] /\ base64[i] <= SEXTET_MASK

(***************************************************************************)
(* C39.  During crc_octets the accumulator needs no more than 25 bits: it  *)
(* is below 2^24 before an octet is XORed in, after it is, and after each  *)
(* of the eight steps, the shifted value of a step is below 2^25, and the  *)
(* mask with 0xFFFFFF at the end changes nothing; an accumulator of 32     *)
(* bits holds every value.                                                 *)
(***************************************************************************)
\* crc24.rs:14-20: the accumulator after octet k is XORed in and n of its
\* eight steps are done
crc_after(slice, k, n) ==
    crc_bits(BitXor(crc_loop(CRC24_INIT, slice, k - 1), slice[k] * 65536), 8 - n)

\* below 2^24
In24Bits(v) == 0 <= v /\ v < CRC24_CARRY

C39_AccumulatorIn25Bits ==
    crc # <<>>
    => /\ \A k \in 1..Len(octets), n \in 0..8 :
              /\ In24Bits(crc_after(octets, k, n))
              /\ 2 * crc_after(octets, k, n) < 2 * CRC24_CARRY
       /\ \A k \in 0..Len(octets) : In24Bits(crc_loop(CRC24_INIT, octets, k))
       /\ crc[1] = crc_loop(CRC24_INIT, octets, Len(octets))

\* the CRC of three octets 0xFF: a step has shifted a bit into bit 24
C39_Witness ==
    /\ octets = <<255, 255, 255>>
    /\ crc # <<>>
    /\ \E k \in 1..Len(octets), n \in 0..7 :
           BitAnd(2 * crc_after(octets, k, n), CRC24_CARRY) # 0

====
